---- MODULE Spec2Model ----
(***************************************************************************)
(* Model of PendingStateManager                                            *)
(* (packages/runtime/container-runtime/src/pendingStateManager.ts): the    *)
(* queue of locally submitted, not yet acknowledged ops of a container     *)
(* runtime, with the batch framing markers, the verification of acks, the  *)
(* rebasing of ops stashed by a previous container and the replay on       *)
(* reconnect.                                                              *)
(*                                                                         *)
(* The operations of the class are operators on a record `s` holding the   *)
(* fields of the PendingStateManager, the part of the ContainerRuntime it  *)
(* reads and calls, and what the operations make observable (the errors    *)
(* passed to closeFn, the error thrown, the rebaseOp calls, the calls to   *)
(* the runtime during the replay, the value returned by processMessage).   *)
(***************************************************************************)
EXTENDS Integers, Sequences, FiniteSets, TLC

\* ------------------------------------------------------------------------
\* Bounds of the model
\* ------------------------------------------------------------------------
\* Largest client sequence number the runtime hands out in one connection.
MaxCsn == 2
\* Largest sequence number the sequencer assigns.
MaxSeq == 2
\* Number of connections (client ids) the service hands out.
MaxClients == 2

\* ------------------------------------------------------------------------
\* Values
\* ------------------------------------------------------------------------
\* `undefined` for a client id (clientId?: string).
NoClientId == 0
\* A client of the document that is neither this container nor the
\* container the pending state was stashed by.
OtherClientId == MaxClients + 1

Automatic == "automatic"
Manual == "manual"
FlushModes == {Automatic, Manual}

Undefined == "undefined"

\* What a local submit carries: message type, content, local op metadata
\* and op metadata.  The two payloads differ in every field.
Payloads ==
    { [messageType |-> "component", content |-> "a",
       localOpMetadata |-> "la", opMetadata |-> "oa"],
      [messageType |-> "attach", content |-> "b",
       localOpMetadata |-> "lb", opMetadata |-> Undefined] }

\* IPendingMessage
PendingMessage(messageType, clientSequenceNumber, referenceSequenceNumber, content, localOpMetadata, opMetadata) ==
    [type |-> "message", flushMode |-> Undefined,
     messageType |-> messageType,
     clientSequenceNumber |-> clientSequenceNumber,
     referenceSequenceNumber |-> referenceSequenceNumber,
     content |-> content,
     localOpMetadata |-> localOpMetadata,
     opMetadata |-> opMetadata]

\* IPendingFlushMode
PendingFlushMode(flushMode) ==
    [type |-> "flushMode", flushMode |-> flushMode,
     messageType |-> Undefined,
     clientSequenceNumber |-> 0, referenceSequenceNumber |-> 0,
     content |-> Undefined, localOpMetadata |-> Undefined,
     opMetadata |-> Undefined]

\* IPendingFlush
PendingFlush ==
    [type |-> "flush", flushMode |-> Undefined,
     messageType |-> Undefined,
     clientSequenceNumber |-> 0, referenceSequenceNumber |-> 0,
     content |-> Undefined, localOpMetadata |-> Undefined,
     opMetadata |-> Undefined]

\* An entry of a serialized IPendingLocalState whose type is none of
\* "message", "flushMode" and "flush": the array comes from outside and is
\* not checked against IPendingState when it is loaded
PendingUnknown ==
    [type |-> "unknown", flushMode |-> Undefined,
     messageType |-> Undefined,
     clientSequenceNumber |-> 0, referenceSequenceNumber |-> 0,
     content |-> Undefined, localOpMetadata |-> Undefined,
     opMetadata |-> Undefined]

\* ISequencedDocumentMessage, the fields the manager reads.  The sequence
\* number is unique per sequenced message, so equality of records is the
\* identity (===) of message objects.
SequencedMessage(type, clientId, sequenceNumber, clientSequenceNumber, batch) ==
    [type |-> type, clientId |-> clientId,
     sequenceNumber |-> sequenceNumber,
     clientSequenceNumber |-> clientSequenceNumber,
     batch |-> batch]

\* pendingBatchBeginMessage === undefined
NoMessage == SequencedMessage(Undefined, NoClientId, 0, 0, "absent")

\* metadata?.batch of a sequenced message
BatchMetadata == {"true", "false", "absent"}

\* ContainerMessageType of a sequenced message: chunked or not
MessageTypes == {"component", "chunkedOp"}

\* The value returned by processMessage
Result(localAck, localOpMetadata) ==
    [localAck |-> localAck, localOpMetadata |-> localOpMetadata]

NoResult == Result(FALSE, Undefined)

\* new DataCorruptionError("Unexpected ack received", {...})
DataCorruptionError(message, expectedClientSequenceNumber) ==
    [errorType |-> "dataCorruptionError",
     message |-> "Unexpected ack received",
     clientId |-> message.clientId,
     sequenceNumber |-> message.sequenceNumber,
     clientSequenceNumber |-> message.clientSequenceNumber,
     expectedClientSequenceNumber |-> expectedClientSequenceNumber]

\* ------------------------------------------------------------------------
\* Helpers on the deque
\* ------------------------------------------------------------------------
RECURSIVE CountMessages(_)
CountMessages(q) ==
    IF q = <<>> THEN 0
    ELSE (IF Head(q).type = "message" THEN 1 ELSE 0) + CountMessages(Tail(q))

RECURSIVE Messages(_)
Messages(q) ==
    IF q = <<>> THEN <<>>
    ELSE IF Head(q).type = "message" THEN <<Head(q)>> \o Messages(Tail(q))
    ELSE Messages(Tail(q))

removeBack(q) == SubSeq(q, 1, Len(q) - 1)

peekBack(q) == q[Len(q)]

\* An assert that failed or an Error that was thrown: the handler stops and
\* the state is what the statements before the throw made it.
Throw(s, error) == [s EXCEPT !.failure = error]

\* ------------------------------------------------------------------------
\* PendingStateManager
\* ------------------------------------------------------------------------
hasPendingMessages(s) == s.pendingMessagesCount # 0

\* getLocalState that also returns the initial states, as getPendingMessages
\* does
getLocalState_withInitial(s) ==
    IF hasPendingMessages(s)
    THEN [defined |-> TRUE, clientId |-> s.clientId,
          pendingStates |-> s.pendingStates \o s.initialStates]
    ELSE [defined |-> FALSE, clientId |-> NoClientId,
          pendingStates |-> <<>>]

\* undefined is modelled by the record with defined = FALSE
getLocalState(s) ==
    IF hasPendingMessages(s)
    THEN [defined |-> TRUE, clientId |-> s.clientId,
          pendingStates |-> s.pendingStates]
    ELSE [defined |-> FALSE, clientId |-> NoClientId,
          pendingStates |-> <<>>]

getPendingMessages(s) ==
    LET pendingMessages == Messages(s.pendingStates \o s.initialStates)
    IN [i \in 1..Len(pendingMessages) |-> pendingMessages[i].content]

\* the client sequence number of the first message of the initial states
RECURSIVE firstMessageCsn(_)
firstMessageCsn(q) ==
    IF q = <<>> THEN -1
    ELSE IF Head(q).type = "message" THEN Head(q).clientSequenceNumber
    ELSE firstMessageCsn(Tail(q))

\* onSubmitMessage with unshift in place of push
onSubmitMessage_unshift(s, type, clientSequenceNumber, referenceSequenceNumber, content, localOpMetadata, opMetadata) ==
    LET pendingMessage ==
            PendingMessage(type, clientSequenceNumber,
                           referenceSequenceNumber, content,
                           localOpMetadata, opMetadata)
    IN [s EXCEPT !.pendingStates = <<pendingMessage>> \o @,
                 !.pendingMessagesCount = @ + 1]

onSubmitMessage(s, type, clientSequenceNumber, referenceSequenceNumber, content, localOpMetadata, opMetadata) ==
    LET pendingMessage ==
            PendingMessage(type, clientSequenceNumber,
                           referenceSequenceNumber, content,
                           localOpMetadata, opMetadata)
    IN [s EXCEPT !.pendingStates = Append(@, pendingMessage),
                 !.pendingMessagesCount = @ + 1]

\* onFlushModeUpdated that keeps a trailing "flush" state
onFlushModeUpdated_keepFlush(s, flushMode) ==
    LET hasPrevious == s.pendingStates # <<>>
        previousState == peekBack(s.pendingStates)
        wasManual == /\ hasPrevious
                     /\ previousState.type = "flushMode"
                     /\ previousState.flushMode = Manual
    IN IF flushMode = Automatic /\ wasManual
       THEN [s EXCEPT !.pendingStates = removeBack(@)]
       ELSE [s EXCEPT !.pendingStates =
                          Append(@, PendingFlushMode(flushMode))]

\* onFlushModeUpdated without the early return of lines 181-184
onFlushModeUpdated_noCollapse(s, flushMode) ==
    LET hasPrevious == s.pendingStates # <<>>
        previousState == peekBack(s.pendingStates)
        wasFlush == hasPrevious /\ previousState.type = "flush"
        afterFlush == IF flushMode = Automatic /\ wasFlush
                      THEN removeBack(s.pendingStates)
                      ELSE s.pendingStates
    IN [s EXCEPT !.pendingStates = Append(afterFlush, PendingFlushMode(flushMode))]

onFlushModeUpdated(s, flushMode) ==
    LET hasPrevious == s.pendingStates # <<>>
        previousState == peekBack(s.pendingStates)
        wasFlush == hasPrevious /\ previousState.type = "flush"
        wasManual == /\ hasPrevious
                     /\ previousState.type = "flushMode"
                     /\ previousState.flushMode = Manual
        afterFlush == IF flushMode = Automatic /\ wasFlush
                      THEN removeBack(s.pendingStates)
                      ELSE s.pendingStates
    IN IF flushMode = Automatic /\ wasManual
       THEN [s EXCEPT !.pendingStates = removeBack(afterFlush)]
       ELSE [s EXCEPT !.pendingStates =
                          Append(afterFlush, PendingFlushMode(flushMode))]

\* onFlush without the check of lines 205-208 on the previous state
onFlush_noMessageCheck(s) ==
    IF s.flushMode = Automatic THEN s
    ELSE [s EXCEPT !.pendingStates = Append(@, PendingFlush)]

onFlush(s) ==
    IF s.flushMode = Automatic THEN s
    ELSE IF s.pendingStates = <<>> THEN s
    ELSE IF peekBack(s.pendingStates).type # "message" THEN s
    ELSE [s EXCEPT !.pendingStates = Append(@, PendingFlush)]

\* peekNextPendingState: the assert of line 395 fails on an empty queue
NoPendingState == "No pending state found for the remote message"

peekNextPendingState(s) == Head(s.pendingStates)

\* maybeProcessBatchBegin without the assert of lines 340-341
maybeProcessBatchBegin_noOpenCheck(s, message) ==
    IF s.pendingStates = <<>> THEN Throw(s, NoPendingState)
    ELSE
    LET pendingState == peekNextPendingState(s)
    IN IF pendingState.type # "flush" /\ pendingState.type # "flushMode"
       THEN s
       ELSE IF /\ pendingState.type = "flushMode"
               /\ pendingState.flushMode # Manual
       THEN Throw(s, "Flush mode should be manual when processing batch begin")
       ELSE [s EXCEPT !.pendingBatchBeginMessage = message,
                      !.isProcessingBatch = TRUE,
                      !.pendingStates = Tail(@)]

maybeProcessBatchBegin(s, message) ==
    IF s.pendingStates = <<>> THEN Throw(s, NoPendingState)
    ELSE
    LET pendingState == peekNextPendingState(s)
    IN IF pendingState.type # "flush" /\ pendingState.type # "flushMode"
       THEN s
       ELSE IF /\ pendingState.type = "flushMode"
               /\ pendingState.flushMode # Manual
       THEN Throw(s, "Flush mode should be manual when processing batch begin")
       ELSE IF ~(/\ ~s.isProcessingBatch
                 /\ s.pendingBatchBeginMessage = NoMessage)
       THEN Throw(s, "The pending batch state indicates we are already processing a batch")
       ELSE [s EXCEPT !.pendingBatchBeginMessage = message,
                      !.isProcessingBatch = TRUE,
                      !.pendingStates = Tail(@)]

\* maybeProcessBatchEnd without the assignment of line 386: the batch begin
\* message is kept when the batch is left
maybeProcessBatchEnd_keepMessage(s, message) ==
    IF s.pendingStates = <<>> THEN Throw(s, NoPendingState)
    ELSE
    LET nextPendingState == peekNextPendingState(s)
        s1 == IF nextPendingState.type = "flushMode"
              THEN [s EXCEPT !.pendingStates = Tail(@)]
              ELSE s
        batchBeginMetadata == s1.pendingBatchBeginMessage.batch
        batchEndMetadata == message.batch
        cleared == [s1 EXCEPT !.isProcessingBatch = FALSE]
    IN IF /\ nextPendingState.type # "flush"
          /\ nextPendingState.type # "flushMode"
       THEN s
       ELSE IF /\ nextPendingState.type = "flushMode"
               /\ nextPendingState.flushMode # Automatic
       THEN Throw(s, "Flush mode is set to Manual in the middle of processing a batch")
       ELSE IF s1.pendingBatchBeginMessage = NoMessage
       THEN Throw(s1, "There is no pending batch begin message")
       ELSE IF s1.pendingBatchBeginMessage = message
       THEN IF batchBeginMetadata # "absent"
            THEN Throw(s1, "Batch with single message should not have batch metadata")
            ELSE cleared
       ELSE IF batchBeginMetadata # "true"
       THEN Throw(s1, "Did not receive batch begin metadata")
       ELSE IF batchEndMetadata # "false"
       THEN Throw(s1, "Did not receive batch end metadata")
       ELSE cleared

\* maybeProcessBatchEnd without the assert of line 382 on the metadata of
\* the last message of the batch
maybeProcessBatchEnd_noEndCheck(s, message) ==
    IF s.pendingStates = <<>> THEN Throw(s, NoPendingState)
    ELSE
    LET nextPendingState == peekNextPendingState(s)
        s1 == IF nextPendingState.type = "flushMode"
              THEN [s EXCEPT !.pendingStates = Tail(@)]
              ELSE s
        batchBeginMetadata == s1.pendingBatchBeginMessage.batch
        cleared == [s1 EXCEPT !.pendingBatchBeginMessage = NoMessage,
                              !.isProcessingBatch = FALSE]
    IN IF /\ nextPendingState.type # "flush"
          /\ nextPendingState.type # "flushMode"
       THEN s
       ELSE IF /\ nextPendingState.type = "flushMode"
               /\ nextPendingState.flushMode # Automatic
       THEN Throw(s, "Flush mode is set to Manual in the middle of processing a batch")
       ELSE IF s1.pendingBatchBeginMessage = NoMessage
       THEN Throw(s1, "There is no pending batch begin message")
       ELSE IF s1.pendingBatchBeginMessage = message
       THEN IF batchBeginMetadata # "absent"
            THEN Throw(s1, "Batch with single message should not have batch metadata")
            ELSE cleared
       ELSE IF batchBeginMetadata # "true"
       THEN Throw(s1, "Did not receive batch begin metadata")
       ELSE cleared

\* maybeProcessBatchEnd that removes a "flush" state as it removes a
\* "flushMode" state
maybeProcessBatchEnd_popFlush(s, message) ==
    IF s.pendingStates = <<>> THEN Throw(s, NoPendingState)
    ELSE
    LET nextPendingState == peekNextPendingState(s)
        s1 == [s EXCEPT !.pendingStates = Tail(@)]
        batchBeginMetadata == s1.pendingBatchBeginMessage.batch
        batchEndMetadata == message.batch
        cleared == [s1 EXCEPT !.pendingBatchBeginMessage = NoMessage,
                              !.isProcessingBatch = FALSE]
    IN IF /\ nextPendingState.type # "flush"
          /\ nextPendingState.type # "flushMode"
       THEN s
       ELSE IF /\ nextPendingState.type = "flushMode"
               /\ nextPendingState.flushMode # Automatic
       THEN Throw(s, "Flush mode is set to Manual in the middle of processing a batch")
       ELSE IF s1.pendingBatchBeginMessage = NoMessage
       THEN Throw(s1, "There is no pending batch begin message")
       ELSE IF s1.pendingBatchBeginMessage = message
       THEN IF batchBeginMetadata # "absent"
            THEN Throw(s1, "Batch with single message should not have batch metadata")
            ELSE cleared
       ELSE IF batchBeginMetadata # "true"
       THEN Throw(s1, "Did not receive batch begin metadata")
       ELSE IF batchEndMetadata # "false"
       THEN Throw(s1, "Did not receive batch end metadata")
       ELSE cleared

maybeProcessBatchEnd(s, message) ==
    IF s.pendingStates = <<>> THEN Throw(s, NoPendingState)
    ELSE
    LET nextPendingState == peekNextPendingState(s)
        s1 == IF nextPendingState.type = "flushMode"
              THEN [s EXCEPT !.pendingStates = Tail(@)]
              ELSE s
        batchBeginMetadata == s1.pendingBatchBeginMessage.batch
        batchEndMetadata == message.batch
        cleared == [s1 EXCEPT !.pendingBatchBeginMessage = NoMessage,
                              !.isProcessingBatch = FALSE]
    IN IF /\ nextPendingState.type # "flush"
          /\ nextPendingState.type # "flushMode"
       THEN s
       ELSE IF /\ nextPendingState.type = "flushMode"
               /\ nextPendingState.flushMode # Automatic
       THEN Throw(s, "Flush mode is set to Manual in the middle of processing a batch")
       ELSE IF s1.pendingBatchBeginMessage = NoMessage
       THEN Throw(s1, "There is no pending batch begin message")
       ELSE IF s1.pendingBatchBeginMessage = message
       THEN IF batchBeginMetadata # "absent"
            THEN Throw(s1, "Batch with single message should not have batch metadata")
            ELSE cleared
       ELSE IF batchBeginMetadata # "true"
       THEN Throw(s1, "Did not receive batch begin metadata")
       ELSE IF batchEndMetadata # "false"
       THEN Throw(s1, "Did not receive batch end metadata")
       ELSE cleared

\* processPendingLocalMessage without the comparison of the client
\* sequence numbers
processPendingLocalMessage_noCsnCheck(s, message) ==
    LET s1 == maybeProcessBatchBegin(s, message)
    IN IF s1.failure # "none" THEN s1
       ELSE IF s1.pendingStates = <<>> THEN Throw(s1, NoPendingState)
       ELSE
       LET pendingState == peekNextPendingState(s1)
           s2 == [s1 EXCEPT !.pendingStates = Tail(@)]
           s3 == [s2 EXCEPT !.pendingMessagesCount = @ - 1]
           s4 == IF s3.isProcessingBatch
                 THEN maybeProcessBatchEnd(s3, message)
                 ELSE s3
       IN IF pendingState.type # "message"
          THEN Throw(s1, "No pending message found for this remote message")
          ELSE IF s4.failure # "none" THEN s4
          ELSE [s4 EXCEPT !.result.localOpMetadata =
                              pendingState.localOpMetadata]

\* processPendingLocalMessage with the decrement of the count moved before
\* the comparison of the client sequence numbers
processPendingLocalMessage_decrementFirst(s, message) ==
    LET s1 == maybeProcessBatchBegin(s, message)
    IN IF s1.failure # "none" THEN s1
       ELSE IF s1.pendingStates = <<>> THEN Throw(s1, NoPendingState)
       ELSE
       LET pendingState == peekNextPendingState(s1)
           s2 == [s1 EXCEPT !.pendingStates = Tail(@)]
           error == DataCorruptionError(message,
                                        pendingState.clientSequenceNumber)
           s3 == [s2 EXCEPT !.pendingMessagesCount = @ - 1]
           s4 == IF s3.isProcessingBatch
                 THEN maybeProcessBatchEnd(s3, message)
                 ELSE s3
       IN IF pendingState.type # "message"
          THEN Throw(s1, "No pending message found for this remote message")
          ELSE IF pendingState.clientSequenceNumber
                      # message.clientSequenceNumber
          THEN [s3 EXCEPT !.closeErrors = Append(@, error)]
          ELSE IF s4.failure # "none" THEN s4
          ELSE [s4 EXCEPT !.result.localOpMetadata =
                              pendingState.localOpMetadata]

\* processPendingLocalMessage that calls closeFn, in place of the assert of
\* line 291, when the pending state is no message
processPendingLocalMessage_closeOnNoMessage(s, message) ==
    LET s1 == maybeProcessBatchBegin(s, message)
    IN IF s1.failure # "none" THEN s1
       ELSE IF s1.pendingStates = <<>>
       THEN [s1 EXCEPT !.closeErrors =
                           Append(@, DataCorruptionError(message, 0))]
       ELSE
       LET pendingState == peekNextPendingState(s1)
           s2 == [s1 EXCEPT !.pendingStates = Tail(@)]
           error == DataCorruptionError(message,
                                        pendingState.clientSequenceNumber)
           s3 == [s2 EXCEPT !.pendingMessagesCount = @ - 1]
           s4 == IF s3.isProcessingBatch
                 THEN maybeProcessBatchEnd(s3, message)
                 ELSE s3
       IN IF pendingState.type # "message"
          THEN [s1 EXCEPT !.closeErrors = Append(@, error)]
          ELSE IF pendingState.clientSequenceNumber
                      # message.clientSequenceNumber
          THEN [s2 EXCEPT !.closeErrors = Append(@, error),
                          !.result.localOpMetadata = Undefined]
          ELSE IF s4.failure # "none" THEN s4
          ELSE [s4 EXCEPT !.result.localOpMetadata =
                              pendingState.localOpMetadata]

\* The value processPendingLocalMessage returns is left in
\* result.localOpMetadata (undefined after the return of line 309).
processPendingLocalMessage(s, message) ==
    LET s1 == maybeProcessBatchBegin(s, message)
    IN IF s1.failure # "none" THEN s1
       ELSE IF s1.pendingStates = <<>> THEN Throw(s1, NoPendingState)
       ELSE
       LET pendingState == peekNextPendingState(s1)
           s2 == [s1 EXCEPT !.pendingStates = Tail(@)]
           error == DataCorruptionError(message,
                                        pendingState.clientSequenceNumber)
           s3 == [s2 EXCEPT !.pendingMessagesCount = @ - 1]
           s4 == IF s3.isProcessingBatch
                 THEN maybeProcessBatchEnd(s3, message)
                 ELSE s3
       IN IF pendingState.type # "message"
          THEN Throw(s1, "No pending message found for this remote message")
          ELSE IF pendingState.clientSequenceNumber
                      # message.clientSequenceNumber
          THEN [s2 EXCEPT !.closeErrors = Append(@, error),
                          !.result.localOpMetadata = Undefined]
          ELSE IF s4.failure # "none" THEN s4
          ELSE [s4 EXCEPT !.result.localOpMetadata =
                              pendingState.localOpMetadata]

TooRecent == "loaded from snapshot too recent to rebase pending initial ops"

\* rebaseOp(content, localOpMetadata): the call is recorded
rebaseOp(s, content, localOpMetadata) ==
    [s EXCEPT !.rebased =
         Append(@, [content |-> content,
                    localOpMetadata |-> localOpMetadata])]

\* the content and the local metadata of the messages of q, as rebaseOp
\* gets them
RebaseCalls(q) ==
    LET messages == Messages(q)
    IN [i \in 1..Len(messages) |->
           [content |-> messages[i].content,
            localOpMetadata |-> messages[i].localOpMetadata]]

\* the loop of lines 244-263 without the throw of line 254
RECURSIVE rebaseInitialStates_noTooRecent(_, _)
rebaseInitialStates_noTooRecent(s, message) ==
    IF s.initialStates = <<>> THEN s
    ELSE
    LET nextState == Head(s.initialStates)
        s1 == IF nextState.type = "message"
              THEN rebaseOp(s, nextState.content, nextState.localOpMetadata)
              ELSE s
    IN IF /\ nextState.type = "message"
          /\ nextState.referenceSequenceNumber > message.sequenceNumber
       THEN s
       ELSE rebaseInitialStates_noTooRecent(
                [s1 EXCEPT !.pendingStates = Append(@, nextState),
                           !.initialStates = Tail(@)],
                message)

\* the loop of lines 244-263 with unshift in place of the push of line 262
RECURSIVE rebaseInitialStates_unshift(_, _)
rebaseInitialStates_unshift(s, message) ==
    IF s.initialStates = <<>> THEN s
    ELSE
    LET nextState == Head(s.initialStates)
        s1 == IF nextState.type = "message"
              THEN rebaseOp(s, nextState.content, nextState.localOpMetadata)
              ELSE s
    IN IF /\ nextState.type = "message"
          /\ nextState.referenceSequenceNumber > message.sequenceNumber
       THEN s
       ELSE IF /\ nextState.type = "message"
               /\ nextState.clientSequenceNumber = s.initialClientSeqNum
               /\ message.sequenceNumber > nextState.referenceSequenceNumber
       THEN Throw(s, TooRecent)
       ELSE rebaseInitialStates_unshift(
                [s1 EXCEPT !.pendingStates = <<nextState>> \o @,
                           !.initialStates = Tail(@)],
                message)

\* the loop of lines 244-263 that stops at a message whose reference
\* sequence number is the sequence number of the sequenced message (>= in
\* place of the > of line 247)
RECURSIVE rebaseInitialStates_stopAtEqual(_, _)
rebaseInitialStates_stopAtEqual(s, message) ==
    IF s.initialStates = <<>> THEN s
    ELSE
    LET nextState == Head(s.initialStates)
        s1 == IF nextState.type = "message"
              THEN rebaseOp(s, nextState.content, nextState.localOpMetadata)
              ELSE s
    IN IF /\ nextState.type = "message"
          /\ nextState.referenceSequenceNumber >= message.sequenceNumber
       THEN s
       ELSE IF /\ nextState.type = "message"
               /\ nextState.clientSequenceNumber = s.initialClientSeqNum
               /\ message.sequenceNumber > nextState.referenceSequenceNumber
       THEN Throw(s, TooRecent)
       ELSE rebaseInitialStates_stopAtEqual(
                [s1 EXCEPT !.pendingStates = Append(@, nextState),
                           !.initialStates = Tail(@)],
                message)

\* the loop of lines 244-263 with the rebaseOp of line 257 before the
\* throw of line 254
RECURSIVE rebaseInitialStates_rebaseFirst(_, _)
rebaseInitialStates_rebaseFirst(s, message) ==
    IF s.initialStates = <<>> THEN s
    ELSE
    LET nextState == Head(s.initialStates)
        s1 == IF nextState.type = "message"
              THEN rebaseOp(s, nextState.content, nextState.localOpMetadata)
              ELSE s
    IN IF /\ nextState.type = "message"
          /\ nextState.referenceSequenceNumber > message.sequenceNumber
       THEN s
       ELSE IF /\ nextState.type = "message"
               /\ nextState.clientSequenceNumber = s.initialClientSeqNum
               /\ message.sequenceNumber > nextState.referenceSequenceNumber
       THEN Throw(s1, TooRecent)
       ELSE rebaseInitialStates_rebaseFirst(
                [s1 EXCEPT !.pendingStates = Append(@, nextState),
                           !.initialStates = Tail(@)],
                message)

\* the loop of lines 244-263
RECURSIVE rebaseInitialStates(_, _)
rebaseInitialStates(s, message) ==
    IF s.initialStates = <<>> THEN s
    ELSE
    LET nextState == Head(s.initialStates)
        s1 == IF nextState.type = "message"
              THEN rebaseOp(s, nextState.content, nextState.localOpMetadata)
              ELSE s
    IN IF /\ nextState.type = "message"
          /\ nextState.referenceSequenceNumber > message.sequenceNumber
       THEN s
       ELSE IF /\ nextState.type = "message"
               /\ nextState.clientSequenceNumber = s.initialClientSeqNum
               /\ message.sequenceNumber > nextState.referenceSequenceNumber
       THEN Throw(s, TooRecent)
       ELSE rebaseInitialStates(
                [s1 EXCEPT !.pendingStates = Append(@, nextState),
                           !.initialStates = Tail(@)],
                message)

\* the loop of lines 267-274 that gives up at a state that is no message
\* and leaves it in the queue
dequeueInitialAck_stopAtMarker(s) ==
    IF s.pendingStates = <<>>
    THEN [s EXCEPT !.result = Result(FALSE, Undefined)]
    ELSE
    LET nextState == Head(s.pendingStates)
        s1 == [s EXCEPT !.pendingStates = Tail(@)]
    IN IF nextState.type = "message"
       THEN [s1 EXCEPT !.result = Result(TRUE, nextState.localOpMetadata)]
       ELSE [s EXCEPT !.result = Result(FALSE, Undefined)]

\* the loop of lines 267-274
RECURSIVE dequeueInitialAck(_)
dequeueInitialAck(s) ==
    IF s.pendingStates = <<>>
    THEN [s EXCEPT !.result = Result(FALSE, Undefined)]
    ELSE
    LET nextState == Head(s.pendingStates)
        s1 == [s EXCEPT !.pendingStates = Tail(@)]
    IN IF nextState.type = "message"
       THEN [s1 EXCEPT !.result = Result(TRUE, nextState.localOpMetadata)]
       ELSE dequeueInitialAck(s1)

\* processRemoteMessage that never takes a sequenced message for the ack
\* of an initial op
processRemoteMessage_noClaim(s, message) ==
    LET s1 == rebaseInitialStates(s, message)
    IN IF s1.failure # "none" THEN s1
       ELSE [s1 EXCEPT !.result = Result(FALSE, Undefined)]

\* processRemoteMessage without the client id test of line 266
processRemoteMessage_anyClient(s, message) ==
    LET s1 == rebaseInitialStates(s, message)
    IN IF s1.failure # "none" THEN s1
       ELSE IF message.clientSequenceNumber >= s1.initialClientSeqNum
       THEN dequeueInitialAck(s1)
       ELSE [s1 EXCEPT !.result = Result(FALSE, Undefined)]

processRemoteMessage(s, message) ==
    LET s1 == rebaseInitialStates(s, message)
    IN IF s1.failure # "none" THEN s1
       ELSE IF /\ message.clientId = s1.initialClientId
               /\ message.clientSequenceNumber >= s1.initialClientSeqNum
       THEN dequeueInitialAck(s1)
       ELSE [s1 EXCEPT !.result = Result(FALSE, Undefined)]

\* processMessage that drops the value of processPendingLocalMessage
processMessage_dropMetadata(s, message, local) ==
    IF message.type = "chunkedOp"
    THEN [s EXCEPT !.result = Result(FALSE, Undefined)]
    ELSE IF local
    THEN LET s1 == processPendingLocalMessage(s, message)
         IN IF s1.failure # "none" THEN s1
            ELSE [s1 EXCEPT !.result = Result(FALSE, Undefined)]
    ELSE processRemoteMessage(s, message)

\* processMessage without the return of lines 227-229 for chunked ops
processMessage_noChunkedReturn(s, message, local) ==
    IF local
    THEN LET s1 == processPendingLocalMessage(s, message)
         IN IF s1.failure # "none" THEN s1
            ELSE [s1 EXCEPT !.result =
                                Result(FALSE, s1.result.localOpMetadata)]
    ELSE processRemoteMessage(s, message)

\* A call that throws returns nothing.
processMessage(s, message, local) ==
    IF message.type = "chunkedOp"
    THEN [s EXCEPT !.result = Result(FALSE, Undefined)]
    ELSE IF local
    THEN LET s1 == processPendingLocalMessage(s, message)
         IN IF s1.failure # "none" THEN s1
            ELSE [s1 EXCEPT !.result =
                                Result(FALSE, s1.result.localOpMetadata)]
    ELSE processRemoteMessage(s, message)

\* ------------------------------------------------------------------------
\* ContainerRuntime, the hooks the manager calls.  Each hook re-enters the
\* manager: submit through onSubmitMessage with the next client sequence
\* number, setFlushMode through onFlushModeUpdated when the mode changes
\* (flushing first when it changes to Automatic), flush through onFlush.
\* ------------------------------------------------------------------------
submit(s, type, content, localOpMetadata, opMetadata) ==
    LET clientSequenceNumber == s.clientSequenceNumber + 1
    IN onSubmitMessage(
           [s EXCEPT !.clientSequenceNumber = clientSequenceNumber],
           type, clientSequenceNumber, s.lastSequenceNumber,
           content, localOpMetadata, opMetadata)

reSubmitFn(s, type, content, localOpMetadata, opMetadata) ==
    submit(s, type, content, localOpMetadata, opMetadata)

flush(s) == onFlush(s)

setFlushMode(s, mode) ==
    IF mode = s.flushMode THEN s
    ELSE LET s1 == IF mode = Automatic THEN flush(s) ELSE s
         IN onFlushModeUpdated([s1 EXCEPT !.flushMode = mode], mode)

\* A call the manager issues to the runtime during replayPendingStates.
Call(name, pendingState) ==
    [call |-> name,
     flushMode |-> pendingState.flushMode,
     messageType |-> pendingState.messageType,
     content |-> pendingState.content,
     localOpMetadata |-> pendingState.localOpMetadata,
     opMetadata |-> pendingState.opMetadata]

\* ------------------------------------------------------------------------
\* PendingStateManager.replayPendingStates
\* ------------------------------------------------------------------------
\* the loop of lines 411-418 with unshift in place of push
RECURSIVE rebaseRemainingInitialStates_unshift(_)
rebaseRemainingInitialStates_unshift(s) ==
    IF s.initialStates = <<>> THEN s
    ELSE
    LET nextMessage == Head(s.initialStates)
        s1 == IF nextMessage.type = "message"
              THEN rebaseOp(s, nextMessage.content,
                            nextMessage.localOpMetadata)
              ELSE s
    IN rebaseRemainingInitialStates_unshift(
           [s1 EXCEPT !.initialStates = Tail(@),
                      !.pendingStates = <<nextMessage>> \o @])

\* the loop of lines 411-418 that also walks the states already in
\* pendingStates and calls rebaseOp on their messages
rebaseRemainingInitialStates_rebaseAll(s) ==
    [s EXCEPT !.rebased = @ \o RebaseCalls(s.pendingStates \o s.initialStates),
              !.pendingStates = @ \o s.initialStates,
              !.initialStates = <<>>]

\* the loop of lines 411-418
RECURSIVE rebaseRemainingInitialStates(_)
rebaseRemainingInitialStates(s) ==
    IF s.initialStates = <<>> THEN s
    ELSE
    LET nextMessage == Head(s.initialStates)
        s1 == IF nextMessage.type = "message"
              THEN rebaseOp(s, nextMessage.content,
                            nextMessage.localOpMetadata)
              ELSE s
    IN rebaseRemainingInitialStates(
           [s1 EXCEPT !.initialStates = Tail(@),
                      !.pendingStates = Append(@, nextMessage)])

\* one iteration of the loop of lines 434-461
\* shift() of an empty deque is undefined, and pendingState.type throws
replayPendingState(s) ==
    LET pendingState == Head(s.pendingStates)
        s1 == [s EXCEPT !.pendingStates = Tail(@)]
    IN IF s.pendingStates = <<>>
       THEN Throw(s, "TypeError: Cannot read property 'type' of undefined")
       ELSE IF pendingState.type = "message"
       THEN reSubmitFn(
                [s1 EXCEPT !.calls =
                     Append(@, Call("reSubmitFn", pendingState))],
                pendingState.messageType, pendingState.content,
                pendingState.localOpMetadata, pendingState.opMetadata)
       ELSE IF pendingState.type = "flushMode"
       THEN setFlushMode(
                [s1 EXCEPT !.calls =
                     Append(@, Call("setFlushMode", pendingState))],
                pendingState.flushMode)
       ELSE IF pendingState.type = "flush"
       THEN flush([s1 EXCEPT !.calls =
                       Append(@, Call("flush", pendingState))])
       ELSE s1

RECURSIVE replayLoop(_, _)
replayLoop(s, pendingStatesCount) ==
    IF pendingStatesCount > 0 /\ s.failure = "none"
    THEN replayLoop(replayPendingState(s), pendingStatesCount - 1)
    ELSE s

\* replayPendingStates without the assert of line 407
replayPendingStates_noTwiceAssert(s) ==
    IF ~s.connected
    THEN Throw(s, "The connection state is not consistent with the runtime")
    ELSE
    LET s1 == rebaseRemainingInitialStates(
                  [s EXCEPT !.clientId = s.runtimeClientId])
        pendingStatesCount == Len(s1.pendingStates)
        savedFlushMode == s1.flushMode
        s2 == replayLoop([s1 EXCEPT !.pendingMessagesCount = 0],
                         pendingStatesCount)
    IN IF pendingStatesCount = 0 THEN s1
       ELSE IF s2.failure # "none" THEN s2
       ELSE setFlushMode(
                [s2 EXCEPT !.calls =
                     Append(@, Call("setFlushMode",
                                    PendingFlushMode(savedFlushMode)))],
                savedFlushMode)

\* replayPendingStates without the revert of the FlushMode of line 464
replayPendingStates_noRevert(s) ==
    IF ~s.connected
    THEN Throw(s, "The connection state is not consistent with the runtime")
    ELSE IF s.clientId = s.runtimeClientId
    THEN Throw(s, "replayPendingStates called twice for same clientId!")
    ELSE
    LET s1 == rebaseRemainingInitialStates(
                  [s EXCEPT !.clientId = s.runtimeClientId])
        pendingStatesCount == Len(s1.pendingStates)
        s2 == replayLoop([s1 EXCEPT !.pendingMessagesCount = 0],
                         pendingStatesCount)
    IN IF pendingStatesCount = 0 THEN s1
       ELSE s2

\* replayPendingStates that reads the FlushMode to revert to after the loop
\* of lines 434-461, not before it
replayPendingStates_saveLate(s) ==
    IF ~s.connected
    THEN Throw(s, "The connection state is not consistent with the runtime")
    ELSE IF s.clientId = s.runtimeClientId
    THEN Throw(s, "replayPendingStates called twice for same clientId!")
    ELSE
    LET s1 == rebaseRemainingInitialStates(
                  [s EXCEPT !.clientId = s.runtimeClientId])
        pendingStatesCount == Len(s1.pendingStates)
        s2 == replayLoop([s1 EXCEPT !.pendingMessagesCount = 0],
                         pendingStatesCount)
        savedFlushMode == s2.flushMode
    IN IF pendingStatesCount = 0 THEN s1
       ELSE IF s2.failure # "none" THEN s2
       ELSE setFlushMode(
                [s2 EXCEPT !.calls =
                     Append(@, Call("setFlushMode",
                                    PendingFlushMode(savedFlushMode)))],
                savedFlushMode)

replayPendingStates(s) ==
    IF ~s.connected
    THEN Throw(s, "The connection state is not consistent with the runtime")
    ELSE IF s.clientId = s.runtimeClientId
    THEN Throw(s, "replayPendingStates called twice for same clientId!")
    ELSE
    LET s1 == rebaseRemainingInitialStates(
                  [s EXCEPT !.clientId = s.runtimeClientId])
        pendingStatesCount == Len(s1.pendingStates)
        savedFlushMode == s1.flushMode
        s2 == replayLoop([s1 EXCEPT !.pendingMessagesCount = 0],
                         pendingStatesCount)
    IN IF pendingStatesCount = 0 THEN s1
       ELSE IF s2.failure # "none" THEN s2
       ELSE setFlushMode(
                [s2 EXCEPT !.calls =
                     Append(@, Call("setFlushMode",
                                    PendingFlushMode(savedFlushMode)))],
                savedFlushMode)

\* new PendingStateManager(containerRuntime, rebaseOp, initialState) in a
\* container whose runtime state is `runtime`; the observations start empty
constructor(runtime, initialState) ==
    [pendingStates |-> <<>>,
     initialStates |-> initialState.pendingStates,
     initialClientId |-> initialState.clientId,
     initialClientSeqNum |-> firstMessageCsn(initialState.pendingStates),
     pendingMessagesCount |-> 0,
     isProcessingBatch |-> FALSE,
     pendingBatchBeginMessage |-> NoMessage,
     clientId |-> NoClientId,
     flushMode |-> runtime.flushMode,
     connected |-> runtime.connected,
     runtimeClientId |-> runtime.clientId,
     clientSequenceNumber |-> runtime.clientSequenceNumber,
     lastSequenceNumber |-> runtime.lastSequenceNumber,
     closeErrors |-> <<>>,
     failure |-> "none",
     rebased |-> <<>>,
     calls |-> <<>>,
     result |-> NoResult]

\* initialState === undefined
NoInitialState ==
    [defined |-> FALSE, clientId |-> NoClientId, pendingStates |-> <<>>]

\* The runtime of a container that was just loaded at sequence number
\* lastSequenceNumber: not connected, no client id, FlushMode.Automatic.
LoadedRuntime(lastSequenceNumber) ==
    [flushMode |-> Automatic, connected |-> FALSE, clientId |-> NoClientId,
     clientSequenceNumber |-> 0, lastSequenceNumber |-> lastSequenceNumber]

\* ------------------------------------------------------------------------
\* State
\* ------------------------------------------------------------------------
VARIABLES
    \* PendingStateManager
    pendingStates, initialStates, initialClientId, initialClientSeqNum,
    pendingMessagesCount, isProcessingBatch, pendingBatchBeginMessage,
    clientId,
    \* ContainerRuntime: flushMode, connected, clientId, the last client
    \* sequence number handed out, deltaManager.lastSequenceNumber
    flushMode, connected, runtimeClientId, clientSequenceNumber,
    lastSequenceNumber,
    \* observations: errors passed to closeFn, the error thrown, rebaseOp
    \* calls, and of the last operation: the calls to the runtime during
    \* replayPendingStates, the value returned by processMessage
    closeErrors, failure, rebased, calls, result,
    \* the service and the host: the last client id handed out, the local
    \* state the container was loaded with, the sequence number at which it
    \* was taken, how many of its messages the sequencer has delivered, and
    \* the step of a scripted scenario
    clientIdCounter, stash, stashSequenceNumber, priorSequenced, pc

coreVars ==
    <<pendingStates, initialStates, initialClientId, initialClientSeqNum,
      pendingMessagesCount, isProcessingBatch, pendingBatchBeginMessage,
      clientId, flushMode, connected, runtimeClientId, clientSequenceNumber,
      lastSequenceNumber, closeErrors, failure, rebased, calls, result>>

vars ==
    <<coreVars, clientIdCounter, stash, stashSequenceNumber,
      priorSequenced, pc>>

State ==
    [pendingStates |-> pendingStates,
     initialStates |-> initialStates,
     initialClientId |-> initialClientId,
     initialClientSeqNum |-> initialClientSeqNum,
     pendingMessagesCount |-> pendingMessagesCount,
     isProcessingBatch |-> isProcessingBatch,
     pendingBatchBeginMessage |-> pendingBatchBeginMessage,
     clientId |-> clientId,
     flushMode |-> flushMode,
     connected |-> connected,
     runtimeClientId |-> runtimeClientId,
     clientSequenceNumber |-> clientSequenceNumber,
     lastSequenceNumber |-> lastSequenceNumber,
     closeErrors |-> closeErrors,
     failure |-> failure,
     rebased |-> rebased,
     calls |-> calls,
     result |-> result]

\* the state becomes s
Becomes(s) ==
    /\ pendingStates' = s.pendingStates
    /\ initialStates' = s.initialStates
    /\ initialClientId' = s.initialClientId
    /\ initialClientSeqNum' = s.initialClientSeqNum
    /\ pendingMessagesCount' = s.pendingMessagesCount
    /\ isProcessingBatch' = s.isProcessingBatch
    /\ pendingBatchBeginMessage' = s.pendingBatchBeginMessage
    /\ clientId' = s.clientId
    /\ flushMode' = s.flushMode
    /\ connected' = s.connected
    /\ runtimeClientId' = s.runtimeClientId
    /\ clientSequenceNumber' = s.clientSequenceNumber
    /\ lastSequenceNumber' = s.lastSequenceNumber
    /\ closeErrors' = s.closeErrors
    /\ failure' = s.failure
    /\ rebased' = s.rebased
    /\ calls' = s.calls
    /\ result' = s.result

\* The container is open: closeFn was not called and nothing was thrown.
\* The host calls nothing on a closed container.
Open == closeErrors = <<>> /\ failure = "none"

\* calls and result describe the last operation only
Forget(s) == [s EXCEPT !.calls = <<>>, !.result = NoResult]

\* ------------------------------------------------------------------------
\* Operations of the host, the runtime and the delta stream
\* ------------------------------------------------------------------------
\* ContainerRuntime.setConnectionState(true, id): the runtime is connected
\* under client id `id`, a new connection numbers its messages from 1, and
\* the manager replays the pending states
connect(s, id) ==
    replayPendingStates(
        [s EXCEPT !.connected = TRUE,
                  !.runtimeClientId = id,
                  !.clientSequenceNumber =
                      IF id = s.runtimeClientId THEN @ ELSE 0])

\* The delta manager delivers a sequenced message to processMessage
deliver(s, message, local) ==
    processMessage([s EXCEPT !.lastSequenceNumber = message.sequenceNumber],
                   message, local)

\* container.getPendingLocalState(), close, and a load of a new container
\* with that state from a snapshot at sequence number `base`
rehydrate(s, base) == constructor(LoadedRuntime(base), getLocalState(s))

DoSubmit(payload) ==
    /\ Open
    /\ Becomes(submit(Forget(State), payload.messageType, payload.content,
                      payload.localOpMetadata, payload.opMetadata))
    /\ UNCHANGED <<clientIdCounter, stash, stashSequenceNumber,
                   priorSequenced>>

DoSetFlushMode(mode) ==
    /\ Open
    /\ mode # flushMode
    /\ Becomes(setFlushMode(Forget(State), mode))
    /\ UNCHANGED <<clientIdCounter, stash, stashSequenceNumber,
                   priorSequenced>>

DoFlush ==
    /\ Open
    /\ Becomes(flush(Forget(State)))
    /\ UNCHANGED <<clientIdCounter, stash, stashSequenceNumber,
                   priorSequenced>>

DoLocalAck(message) ==
    /\ Open
    /\ connected
    /\ message.clientId = runtimeClientId
    /\ message.sequenceNumber = lastSequenceNumber + 1
    /\ Becomes(deliver(Forget(State), message, TRUE))
    /\ UNCHANGED <<clientIdCounter, stash, stashSequenceNumber,
                   priorSequenced>>

\* a message of another client of the document
DoRemoteAck(message) ==
    /\ Open
    /\ message.clientId = OtherClientId
    /\ message.sequenceNumber = lastSequenceNumber + 1
    /\ Becomes(deliver(Forget(State), message, FALSE))
    /\ UNCHANGED <<clientIdCounter, stash, stashSequenceNumber,
                   priorSequenced>>

\* A message of the client that stashed the local state.  Up to the
\* sequence number of the stash the sequencer had delivered the messages
\* before the stashed ones; after it, it delivers the stashed messages in
\* the order of their client sequence numbers.  A chunk of a chunked op is
\* no message of the stash.
DoPriorAck(message) ==
    /\ Open
    /\ stash.defined
    /\ initialClientId # NoClientId
    /\ message.clientId = initialClientId
    /\ message.sequenceNumber = lastSequenceNumber + 1
    /\ IF message.type = "chunkedOp"
       THEN priorSequenced' = priorSequenced
       ELSE IF message.sequenceNumber <= stashSequenceNumber
       THEN /\ message.clientSequenceNumber < initialClientSeqNum
            /\ priorSequenced' = priorSequenced
       ELSE /\ priorSequenced < CountMessages(stash.pendingStates)
            /\ message.clientSequenceNumber
                   = initialClientSeqNum + priorSequenced
            /\ priorSequenced' = priorSequenced + 1
    /\ Becomes(deliver(Forget(State), message, FALSE))
    /\ UNCHANGED <<clientIdCounter, stash, stashSequenceNumber>>

\* A connection under client id `id`.  The replay stays within the client
\* sequence numbers 1..maxCsn.
DoConnect(id, maxCsn) ==
    /\ Open
    /\ connect(Forget(State), id).clientSequenceNumber <= maxCsn
    /\ Becomes(connect(Forget(State), id))
    /\ UNCHANGED <<stash, stashSequenceNumber, priorSequenced>>

DoRehydrate(base) ==
    /\ Open
    /\ ~stash.defined
    /\ getLocalState(State).defined
    /\ stash' = getLocalState(State)
    /\ stashSequenceNumber' = lastSequenceNumber
    /\ Becomes(rehydrate(State, base))
    /\ UNCHANGED <<clientIdCounter, priorSequenced>>

\* ------------------------------------------------------------------------
\* Spec: a container created without local state and any use of it: ops
\* are submitted, the flush mode changes, the runtime is flushed, it
\* connects and reconnects, and sequenced messages of its own and of other
\* clients are delivered, in order or not.
\* ------------------------------------------------------------------------
Fresh == constructor(LoadedRuntime(0), NoInitialState)

\* the state is s
Is(s) ==
    /\ pendingStates = s.pendingStates
    /\ initialStates = s.initialStates
    /\ initialClientId = s.initialClientId
    /\ initialClientSeqNum = s.initialClientSeqNum
    /\ pendingMessagesCount = s.pendingMessagesCount
    /\ isProcessingBatch = s.isProcessingBatch
    /\ pendingBatchBeginMessage = s.pendingBatchBeginMessage
    /\ clientId = s.clientId
    /\ flushMode = s.flushMode
    /\ connected = s.connected
    /\ runtimeClientId = s.runtimeClientId
    /\ clientSequenceNumber = s.clientSequenceNumber
    /\ lastSequenceNumber = s.lastSequenceNumber
    /\ closeErrors = s.closeErrors
    /\ failure = s.failure
    /\ rebased = s.rebased
    /\ calls = s.calls
    /\ result = s.result

Init ==
    /\ Is(Fresh)
    /\ clientIdCounter = 0
    /\ stash = NoInitialState
    /\ stashSequenceNumber = 0
    /\ priorSequenced = 0
    /\ pc = "free"

\* The payload of the n-th op a container submits: consecutive ops carry
\* different payloads.
PayloadOf(n) ==
    CHOOSE payload \in Payloads :
        (payload.content = "a") <=> (n % 2 = 1)

Submit ==
    /\ clientSequenceNumber < MaxCsn
    /\ DoSubmit(PayloadOf(clientSequenceNumber + 1))
    /\ UNCHANGED pc

SetFlushMode == (\E mode \in FlushModes : DoSetFlushMode(mode)) /\ UNCHANGED pc

Flush == DoFlush /\ UNCHANGED pc

\* the sequenced message of an op of this connection, or of a chunk of one,
\* in order or not, with any batch metadata
LocalAck ==
    /\ lastSequenceNumber < MaxSeq
    /\ \E type \in MessageTypes, csn \in 1..clientSequenceNumber,
          batch \in BatchMetadata :
          /\ type = "chunkedOp" => batch = "absent"
          /\ DoLocalAck(SequencedMessage(type, runtimeClientId,
                                         lastSequenceNumber + 1, csn, batch))
    /\ UNCHANGED pc

\* the sequenced message of an op of another client, or of a chunk of one
RemoteAck ==
    /\ lastSequenceNumber < MaxSeq
    /\ \E type \in MessageTypes :
          DoRemoteAck(SequencedMessage(type, OtherClientId,
                                       lastSequenceNumber + 1, 1, "absent"))
    /\ UNCHANGED pc

PriorAck ==
    /\ lastSequenceNumber < MaxSeq
    /\ \E type \in MessageTypes, csn \in 1..MaxCsn :
          DoPriorAck(SequencedMessage(type, initialClientId,
                                      lastSequenceNumber + 1, csn, "absent"))
    /\ UNCHANGED pc

\* a connection under a new client id
Connect ==
    /\ clientIdCounter < MaxClients
    /\ DoConnect(clientIdCounter + 1, MaxCsn)
    /\ clientIdCounter' = clientIdCounter + 1
    /\ UNCHANGED pc

\* a connected event that carries the client id of the current connection
ConnectAgain ==
    /\ runtimeClientId # NoClientId
    /\ DoConnect(runtimeClientId, MaxCsn)
    /\ UNCHANGED <<clientIdCounter, pc>>

Rehydrate ==
    /\ \E base \in 0..lastSequenceNumber : DoRehydrate(base)
    /\ UNCHANGED pc

Next ==
    \/ Submit
    \/ SetFlushMode
    \/ Flush
    \/ LocalAck
    \/ RemoteAck
    \/ Connect
    \/ ConnectAgain

Spec == Init /\ [][Next]_vars

\* ------------------------------------------------------------------------
\* SpecStash: the hand-off.  A connected container submits ops, changes the
\* flush mode and flushes while other clients' messages are sequenced; its
\* local state is taken and a new container is loaded with it, which
\* processes the messages of the other clients and of the container that
\* stashed, submits ops of its own and connects.
\* ------------------------------------------------------------------------
InitConnected ==
    /\ Is(connect(Fresh, 1))
    /\ clientIdCounter = 1
    /\ stash = NoInitialState
    /\ stashSequenceNumber = 0
    /\ priorSequenced = 0
    /\ pc = "free"

\* an op is submitted; the loaded container submits before it connects,
\* and its ops carry on after the ops of the stash: the first of them
\* differs from the last stashed one
StashSubmit ==
    /\ stash.defined => clientId = NoClientId
    /\ clientSequenceNumber < MaxCsn
    /\ DoSubmit(PayloadOf(CountMessages(stash.pendingStates)
                              + clientSequenceNumber + 1))
    /\ UNCHANGED pc

StashSetFlushMode == ~stash.defined /\ SetFlushMode

StashFlush == ~stash.defined /\ Flush

StashConnect == stash.defined /\ Connect

NextStash ==
    \/ StashSubmit
    \/ StashSetFlushMode
    \/ StashFlush
    \/ RemoteAck
    \/ Rehydrate
    \/ PriorAck
    \/ StashConnect

SpecStash == InitConnected /\ [][NextStash]_vars

\* ------------------------------------------------------------------------
\* SpecInOrder: a connected container, the only writer of the document,
\* submits ops and the sequencer acknowledges them in the order it got them:
\* the k-th sequenced message is the k-th op of the container.
\* ------------------------------------------------------------------------
\* Number of ops the container of SpecInOrder submits.
MaxInOrder == 4

InOrderSubmit ==
    /\ clientSequenceNumber < MaxInOrder
    /\ \E payload \in Payloads : DoSubmit(payload)
    /\ UNCHANGED pc

InOrderAck ==
    /\ lastSequenceNumber < clientSequenceNumber
    /\ \E batch \in BatchMetadata :
          DoLocalAck(SequencedMessage("component", runtimeClientId,
                                      lastSequenceNumber + 1,
                                      lastSequenceNumber + 1, batch))
    /\ UNCHANGED pc

NextInOrder == InOrderSubmit \/ InOrderAck

SpecInOrder == InitConnected /\ [][NextInOrder]_vars

\* ------------------------------------------------------------------------
\* SpecBatch: the scenario of ContainerRuntime.orderSequentially followed by
\* a hand-off.  A connected container sets the flush mode to Manual and
\* submits ops; either its local state is taken then, inside the batch, or
\* it flushes and sets the flush mode back to Automatic and its local
\* state is taken after that.  A new container is loaded with the state
\* and connects.
\* ------------------------------------------------------------------------
\* Number of ops of the batch.
MaxBatch == 4

InitBatch ==
    /\ Is(connect(Fresh, 1))
    /\ clientIdCounter = 1
    /\ stash = NoInitialState
    /\ stashSequenceNumber = 0
    /\ priorSequenced = 0
    /\ pc = "start"

BatchBegin ==
    /\ pc = "start"
    /\ DoSetFlushMode(Manual)
    /\ pc' = "manual"

BatchSubmit ==
    /\ pc = "manual"
    /\ clientSequenceNumber < MaxBatch
    /\ \E payload \in Payloads : DoSubmit(payload)
    /\ pc' = "manual"

BatchFlush ==
    /\ pc = "manual"
    /\ clientSequenceNumber > 0
    /\ DoFlush
    /\ pc' = "flushed"

BatchEnd ==
    /\ pc = "flushed"
    /\ DoSetFlushMode(Automatic)
    /\ pc' = "automatic"

BatchStash ==
    /\ pc \in {"manual", "automatic"}
    /\ DoRehydrate(0)
    /\ pc' = IF pc = "manual" THEN "stashedOpen" ELSE "stashedClosed"

BatchReplay ==
    /\ pc \in {"stashedOpen", "stashedClosed"}
    /\ DoConnect(clientIdCounter + 1, MaxBatch)
    /\ clientIdCounter' = clientIdCounter + 1
    /\ pc' = IF pc = "stashedOpen" THEN "replayedOpen" ELSE "replayedClosed"

NextBatch ==
    \/ BatchBegin
    \/ BatchSubmit
    \/ BatchFlush
    \/ BatchEnd
    \/ BatchStash
    \/ BatchReplay

SpecBatch == InitBatch /\ [][NextBatch]_vars

\* ------------------------------------------------------------------------
\* SpecOrdered: a connected container, the only writer of the document,
\* submits ops, changes the flush mode and flushes in any interleaving, and
\* the sequencer acknowledges its ops in the order it got them, with any
\* batch metadata on the acknowledgement.
\* ------------------------------------------------------------------------
\* Number of ops the container of SpecOrdered submits.
MaxOrdered == 3

OrderedSubmit ==
    /\ clientSequenceNumber < MaxOrdered
    /\ DoSubmit(PayloadOf(clientSequenceNumber + 1))
    /\ UNCHANGED pc

OrderedAck ==
    /\ lastSequenceNumber < clientSequenceNumber
    /\ \E batch \in BatchMetadata :
          DoLocalAck(SequencedMessage("component", runtimeClientId,
                                      lastSequenceNumber + 1,
                                      lastSequenceNumber + 1, batch))
    /\ UNCHANGED pc

NextOrdered ==
    \/ OrderedSubmit
    \/ SetFlushMode
    \/ Flush
    \/ OrderedAck

SpecOrdered == InitConnected /\ [][NextOrdered]_vars

\* ------------------------------------------------------------------------
\* SpecBlob: a container is loaded, from the snapshot at sequence number 0,
\* with a local state that came from outside: the messages a container with
\* client id 1 had submitted at sequence number 1, with entries of an
\* unknown type anywhere among them.  The loaded container processes the
\* messages of another client and of the container that stashed, submits
\* ops of its own and connects.
\* ------------------------------------------------------------------------
\* Number of entries of the local state.
MaxBlob == 3

\* the types of the entries of a local state, one message at least
BlobTypes ==
    {types \in UNION {[1..n -> {"message", "unknown"}] : n \in 1..MaxBlob} :
        \E i \in DOMAIN types : types[i] = "message"}

\* the entries: the messages carry the client sequence numbers 1, 2, ...
BlobStates(types) ==
    [i \in DOMAIN types |->
        IF types[i] = "message"
        THEN LET csn == Cardinality({j \in 1..i : types[j] = "message"})
                 payload == PayloadOf(csn)
             IN PendingMessage(payload.messageType, csn, 1, payload.content,
                               payload.localOpMetadata, payload.opMetadata)
        ELSE PendingUnknown]

InitBlob ==
    \E types \in BlobTypes :
        LET initialState == [defined |-> TRUE, clientId |-> 1,
                             pendingStates |-> BlobStates(types)]
        IN /\ Is(constructor(LoadedRuntime(0), initialState))
           /\ stash = initialState
           /\ stashSequenceNumber = 1
           /\ clientIdCounter = 1
           /\ priorSequenced = 0
           /\ pc = "free"

NextBlob ==
    \/ StashSubmit
    \/ RemoteAck
    \/ PriorAck
    \/ StashConnect

SpecBlob == InitBlob /\ [][NextBlob]_vars

\* ------------------------------------------------------------------------
\* SpecFramed: a connected container, the only writer of the document, with
\* the wire between the runtime and the sequencer.  In FlushMode.Automatic
\* an op is sent as it is submitted; in FlushMode.Manual the runtime holds
\* the ops until it flushes and sends them as one batch, the first marked
\* batch = true and the last batch = false when there are several.  The
\* sequencer acknowledges what was sent, in order.  pc is the wire: the
\* batch metadata of the ops sent and not acknowledged, and the number of
\* ops held.
\* ------------------------------------------------------------------------
\* Number of ops the container of SpecFramed submits.
MaxFramed == 3

\* the batch metadata of a batch of n ops
Frame(n) ==
    [i \in 1..n |-> IF n = 1 THEN "absent"
                    ELSE IF i = 1 THEN "true"
                    ELSE IF i = n THEN "false"
                    ELSE "absent"]

InitFramed ==
    /\ Is(connect(Fresh, 1))
    /\ clientIdCounter = 1
    /\ stash = NoInitialState
    /\ stashSequenceNumber = 0
    /\ priorSequenced = 0
    /\ pc = [wire |-> <<>>, held |-> 0]

FramedSubmit ==
    /\ clientSequenceNumber < MaxFramed
    /\ DoSubmit(PayloadOf(clientSequenceNumber + 1))
    /\ pc' = IF flushMode = Automatic
             THEN [pc EXCEPT !.wire = Append(@, "absent")]
             ELSE [pc EXCEPT !.held = @ + 1]

FramedFlush ==
    /\ DoFlush
    /\ pc' = [wire |-> pc.wire \o Frame(pc.held), held |-> 0]

FramedSetFlushMode ==
    \E mode \in FlushModes :
        /\ DoSetFlushMode(mode)
        /\ pc' = IF mode = Automatic
                 THEN [wire |-> pc.wire \o Frame(pc.held), held |-> 0]
                 ELSE pc

FramedAck ==
    /\ pc.wire # <<>>
    /\ DoLocalAck(SequencedMessage("component", runtimeClientId,
                                   lastSequenceNumber + 1,
                                   lastSequenceNumber + 1, Head(pc.wire)))
    /\ pc' = [pc EXCEPT !.wire = Tail(@)]

NextFramed ==
    \/ FramedSubmit
    \/ FramedFlush
    \/ FramedSetFlushMode
    \/ FramedAck

SpecFramed == InitFramed /\ [][NextFramed]_vars

\* ------------------------------------------------------------------------
\* SpecReconnect: the container of SpecFramed that also reconnects.  The
\* connection is lost with what was on the wire and what the runtime held;
\* under the new connection the replay resubmits the pending ops, which
\* the runtime sends or holds as it does for a submit, and the sequencer
\* acknowledges what was sent, in order, numbered from 1.  pc is the wire,
\* the number of ops held, the number of ops of this connection that were
\* acknowledged, the number of ops the replay resubmitted and whether a
\* batch was being processed when it ran.
\* ------------------------------------------------------------------------
\* Number of ops the container of SpecReconnect submits in one connection.
MaxReconnect == 3

\* what the runtime has sent and holds after the calls `issued` of a replay
RECURSIVE WireAfter(_, _, _, _)
WireAfter(issued, mode, wire, held) ==
    IF issued = <<>> THEN [wire |-> wire, held |-> held]
    ELSE
    LET c == Head(issued)
    IN IF c.call = "reSubmitFn"
       THEN IF mode = Automatic
            THEN WireAfter(Tail(issued), mode, Append(wire, "absent"), held)
            ELSE WireAfter(Tail(issued), mode, wire, held + 1)
       ELSE IF c.call = "setFlushMode"
       THEN IF c.flushMode = mode
            THEN WireAfter(Tail(issued), mode, wire, held)
            ELSE IF c.flushMode = Automatic
            THEN WireAfter(Tail(issued), Automatic, wire \o Frame(held), 0)
            ELSE WireAfter(Tail(issued), Manual, wire, held)
       ELSE WireAfter(Tail(issued), mode, wire \o Frame(held), 0)

InitReconnect ==
    /\ Is(connect(Fresh, 1))
    /\ clientIdCounter = 1
    /\ stash = NoInitialState
    /\ stashSequenceNumber = 0
    /\ priorSequenced = 0
    /\ pc = [wire |-> <<>>, held |-> 0, acked |-> 0, resubmitted |-> 0,
             midBatch |-> FALSE]

ReconnectSubmit ==
    /\ clientSequenceNumber < MaxReconnect
    /\ DoSubmit(PayloadOf(clientSequenceNumber + 1))
    /\ pc' = IF flushMode = Automatic
             THEN [pc EXCEPT !.wire = Append(@, "absent")]
             ELSE [pc EXCEPT !.held = @ + 1]

ReconnectFlush ==
    /\ DoFlush
    /\ pc' = [pc EXCEPT !.wire = @ \o Frame(pc.held), !.held = 0]

ReconnectSetFlushMode ==
    \E mode \in FlushModes :
        /\ DoSetFlushMode(mode)
        /\ pc' = IF mode = Automatic
                 THEN [pc EXCEPT !.wire = @ \o Frame(pc.held), !.held = 0]
                 ELSE pc

ReconnectAck ==
    /\ pc.wire # <<>>
    /\ DoLocalAck(SequencedMessage("component", runtimeClientId,
                                   lastSequenceNumber + 1, pc.acked + 1,
                                   Head(pc.wire)))
    /\ pc' = [pc EXCEPT !.wire = Tail(@), !.acked = @ + 1]

Reconnect ==
    /\ clientIdCounter < MaxClients
    /\ DoConnect(clientIdCounter + 1, MaxReconnect)
    /\ clientIdCounter' = clientIdCounter + 1
    /\ LET sent == WireAfter(calls', flushMode, <<>>, 0)
       IN pc' = [wire |-> sent.wire, held |-> sent.held, acked |-> 0,
                 resubmitted |-> Len(SelectSeq(calls', LAMBDA c : c.call = "reSubmitFn")),
                 midBatch |-> isProcessingBatch]

NextReconnect ==
    \/ ReconnectSubmit
    \/ ReconnectFlush
    \/ ReconnectSetFlushMode
    \/ ReconnectAck
    \/ Reconnect

SpecReconnect == InitReconnect /\ [][NextReconnect]_vars

\* ------------------------------------------------------------------------
\* SpecHandOff: the hand-off with batches on both sides.  A connected
\* container, the only writer of the document, submits ops, changes the
\* flush mode and flushes, and the sequencer acknowledges its ops in order,
\* with any batch metadata on the acknowledgement; its local state is taken and a new container is loaded with it, which
\* also submits ops, changes the flush mode and flushes before it connects,
\* while it processes the messages that were sequenced since its snapshot.
\* ------------------------------------------------------------------------
HandOffAck ==
    /\ ~stash.defined
    /\ lastSequenceNumber < clientSequenceNumber
    /\ \E batch \in BatchMetadata :
          DoLocalAck(SequencedMessage("component", runtimeClientId,
                                      lastSequenceNumber + 1,
                                      lastSequenceNumber + 1, batch))
    /\ UNCHANGED pc

HandOffSequenced == stash.defined /\ clientId = NoClientId /\ (RemoteAck \/ PriorAck)

NextHandOff ==
    \/ StashSubmit
    \/ SetFlushMode
    \/ Flush
    \/ HandOffAck
    \/ Rehydrate
    \/ HandOffSequenced
    \/ StashConnect

SpecHandOff == InitConnected /\ [][NextHandOff]_vars

\* ------------------------------------------------------------------------
\* Properties
\* ------------------------------------------------------------------------

\* C1: ops submitted without flush-mode changes or flushes and acknowledged
\* in order with their own client sequence numbers: no ack is rejected (no
\* closeFn call, no failed assert), and once the last submitted op is
\* acknowledged pendingMessagesCount is 0 and the pending queue is empty.
C1_InOrderAcksDrain ==
    /\ closeErrors = <<>>
    /\ failure = "none"
    /\ lastSequenceNumber = clientSequenceNumber
           => pendingMessagesCount = 0 /\ pendingStates = <<>>

\* three ops were submitted and all three acks were accepted
C1_Witness ==
    /\ clientSequenceNumber = 3
    /\ lastSequenceNumber = 3
    /\ result.localOpMetadata # Undefined
    /\ pendingStates = <<>>

\* C2: in every state between operations of an open container
\* pendingMessagesCount is the number of "message" states in pendingStates.
\* Violated: processRemoteMessage moves the messages of the initial states
\* to pendingStates without counting them.
C2_CountIsMessages ==
    Open => pendingMessagesCount = CountMessages(pendingStates)

\* C3, as the code has it: for every local ack that is no chunked op, the
\* state the ack is matched with is the head of pendingStates or, when the
\* head is a "flush" or "flushMode" state, the state behind it.  Either it
\* is a message with the client sequence number of the ack and closeFn is
\* not called, or it is a message with another client sequence number and
\* closeFn is called with a DataCorruptionError, or an assert fails and
\* closeFn is not called.
C3_LocalAckMatchesOrCloses ==
    [][lastSequenceNumber' = lastSequenceNumber + 1 => \A csn \in 1..clientSequenceNumber, batch \in BatchMetadata :
         LET message == SequencedMessage("component", runtimeClientId,
                                         lastSequenceNumber + 1, csn, batch)
             marker == /\ pendingStates # <<>>
                       /\ Head(pendingStates).type \in {"flush", "flushMode"}
             rest == IF marker THEN Tail(pendingStates) ELSE pendingStates
             isMessage == rest # <<>> /\ Head(rest).type = "message"
         IN DoLocalAck(message) =>
                \/ /\ isMessage
                   /\ Head(rest).clientSequenceNumber = csn
                   /\ closeErrors' = closeErrors
                \/ /\ isMessage
                   /\ Head(rest).clientSequenceNumber # csn
                   /\ Len(closeErrors') = Len(closeErrors) + 1
                   /\ closeErrors'[Len(closeErrors')].errorType
                          = "dataCorruptionError"
                   /\ failure' = "none"
                \/ /\ failure' # "none"
                   /\ closeErrors' = closeErrors]_vars

\* the first ack of a batch of two ops was accepted: the head of
\* pendingStates was the "flushMode" state that opened the batch
C3_Witness ==
    /\ Open
    /\ isProcessingBatch
    /\ pendingBatchBeginMessage.sequenceNumber = lastSequenceNumber
    /\ result.localOpMetadata # Undefined
    /\ pendingMessagesCount = 1

\* C3, as the spec has it: for every local ack that is no chunked op,
\* either the head of pendingStates before the call was a message with the
\* client sequence number of the ack, or closeFn was called with a
\* DataCorruptionError during the call.
C3_HeadMatchesOrCloses ==
    [][lastSequenceNumber' = lastSequenceNumber + 1 => \A csn \in 1..clientSequenceNumber, batch \in BatchMetadata :
         LET message == SequencedMessage("component", runtimeClientId,
                                         lastSequenceNumber + 1, csn, batch)
         IN DoLocalAck(message) =>
                \/ /\ pendingStates # <<>>
                   /\ Head(pendingStates).type = "message"
                   /\ Head(pendingStates).clientSequenceNumber = csn
                \/ /\ Len(closeErrors') = Len(closeErrors) + 1
                   /\ closeErrors'[Len(closeErrors')].errorType
                          = "dataCorruptionError"]_vars

\* C4: when the message dequeued for a local ack has another client
\* sequence number than the ack, closeFn is called once, with the
\* DataCorruptionError that carries the client id, the sequence number and
\* the client sequence number of the ack and the client sequence number of
\* the message; nothing is thrown, pendingMessagesCount is not decremented
\* and the end of the batch is not processed: nothing but the message (and
\* the marker of the batch begin before it) leaves pendingStates and the
\* batch state is the one the batch begin left.
C4_MismatchCloses ==
    [][lastSequenceNumber' = lastSequenceNumber + 1 => \A csn \in 1..clientSequenceNumber, batch \in BatchMetadata :
         LET message == SequencedMessage("component", runtimeClientId,
                                         lastSequenceNumber + 1, csn, batch)
             marker == /\ pendingStates # <<>>
                       /\ Head(pendingStates).type \in {"flush", "flushMode"}
             begins == /\ marker
                       /\ ~isProcessingBatch
                       /\ pendingBatchBeginMessage = NoMessage
                       /\ Head(pendingStates).type = "flushMode"
                              => Head(pendingStates).flushMode = Manual
             rest == IF marker THEN Tail(pendingStates) ELSE pendingStates
             dequeued == /\ marker => begins
                         /\ rest # <<>>
                         /\ Head(rest).type = "message"
         IN (/\ DoLocalAck(message)
             /\ dequeued
             /\ Head(rest).clientSequenceNumber # csn) =>
                /\ closeErrors' =
                       Append(closeErrors,
                              [errorType |-> "dataCorruptionError",
                               message |-> "Unexpected ack received",
                               clientId |-> runtimeClientId,
                               sequenceNumber |-> lastSequenceNumber + 1,
                               clientSequenceNumber |-> csn,
                               expectedClientSequenceNumber |->
                                   Head(rest).clientSequenceNumber])
                /\ failure' = "none"
                /\ pendingMessagesCount' = pendingMessagesCount
                /\ pendingStates' = Tail(rest)
                /\ isProcessingBatch' = (isProcessingBatch \/ marker)
                /\ pendingBatchBeginMessage' =
                       IF marker THEN message ELSE pendingBatchBeginMessage
                /\ result' = NoResult]_vars

\* closeFn was called for the ack of the only op of a batch: the state
\* that closes the batch is still the head of pendingStates
C4_Witness ==
    /\ Len(closeErrors) = 1
    /\ failure = "none"
    /\ isProcessingBatch
    /\ pendingStates # <<>>
    /\ Head(pendingStates) = PendingFlushMode(Automatic)
    /\ pendingMessagesCount = 2

\* C5, as the code has it: processMessage with local = true, for an ack
\* whose client sequence number is the one of the message dequeued for it
\* and that passes the checks of the batch, returns localAck = false and
\* the localOpMetadata the message was submitted with.
C5_LocalAckReturnsMetadata ==
    [][lastSequenceNumber' = lastSequenceNumber + 1 => \A csn \in 1..clientSequenceNumber, batch \in BatchMetadata :
         LET message == SequencedMessage("component", runtimeClientId,
                                         lastSequenceNumber + 1, csn, batch)
             marker == /\ pendingStates # <<>>
                       /\ Head(pendingStates).type \in {"flush", "flushMode"}
             rest == IF marker THEN Tail(pendingStates) ELSE pendingStates
         IN (/\ DoLocalAck(message)
             /\ rest # <<>>
             /\ Head(rest).type = "message"
             /\ Head(rest).clientSequenceNumber = csn
             /\ failure' = "none") =>
                /\ result'.localAck = FALSE
                /\ result'.localOpMetadata = Head(rest).localOpMetadata
                /\ pendingMessagesCount' = pendingMessagesCount - 1]_vars

\* the ack of the second of two ops was accepted and processMessage
\* returned the local op metadata of that op
C5_Witness ==
    /\ Open
    /\ connected
    /\ lastSequenceNumber = 2
    /\ clientSequenceNumber = 2
    /\ pendingMessagesCount = 0
    /\ result.localOpMetadata \in {"la", "lb"}

\* C5, as the spec has it: processMessage with local = true, for an ack
\* whose client sequence number is the one of the message dequeued for it,
\* returns localAck = true and the localOpMetadata of the message.
C5_LocalAckReturnsTrue ==
    [][lastSequenceNumber' = lastSequenceNumber + 1 => \A csn \in 1..clientSequenceNumber, batch \in BatchMetadata :
         LET message == SequencedMessage("component", runtimeClientId,
                                         lastSequenceNumber + 1, csn, batch)
             marker == /\ pendingStates # <<>>
                       /\ Head(pendingStates).type \in {"flush", "flushMode"}
             rest == IF marker THEN Tail(pendingStates) ELSE pendingStates
         IN (/\ DoLocalAck(message)
             /\ rest # <<>>
             /\ Head(rest).type = "message"
             /\ Head(rest).clientSequenceNumber = csn
             /\ failure' = "none") =>
                /\ result'.localAck = TRUE
                /\ result'.localOpMetadata = Head(rest).localOpMetadata]_vars

\* C6: the round trip of a hand-off.  The container loaded with the local
\* state of another one gets the states of that local state, in order, as
\* its initial states; when it connects before it has submitted or rebased
\* anything, replayPendingStates calls the runtime once per state of the
\* local state, in the order of the states: reSubmitFn with the message
\* type, content, local op metadata and op metadata of a message,
\* setFlushMode with the mode of a "flushMode" state, flush for a "flush"
\* state; the call that reverts the flush mode follows them.
C6_ReplayReissuesEntries ==
    [][/\ (~stash.defined /\ stash'.defined) =>
              /\ pendingMessagesCount > 0
              /\ initialStates' = pendingStates
              /\ initialClientId' = clientId
              /\ pendingStates' = <<>>
       /\ (/\ stash.defined
           /\ clientId = NoClientId
           /\ clientId' # NoClientId
           /\ pendingStates = <<>>
           /\ initialStates = stash.pendingStates) =>
              /\ failure' = "none"
              /\ closeErrors' = <<>>
              /\ calls' =
                     [i \in 1..Len(initialStates) |->
                         LET state == initialStates[i]
                         IN Call(CASE state.type = "message" -> "reSubmitFn"
                                   [] state.type = "flushMode" -> "setFlushMode"
                                   [] state.type = "flush" -> "flush",
                                 state)]
                     \o <<Call("setFlushMode", PendingFlushMode(flushMode))>>
      ]_vars

\* a local state of four states, with a "flushMode", a "flush" and two
\* messages, was replayed by the container loaded with it
C6_Witness ==
    /\ stash.defined
    /\ clientId # NoClientId
    /\ failure = "none"
    /\ lastSequenceNumber = 0
    /\ Len(stash.pendingStates) = 4
    /\ Len(calls) = 5
    /\ calls[3].call = "flush"
    /\ clientSequenceNumber = 2

\* C7, as the code has it: after setFlushMode(Manual), N submits, flush()
\* and setFlushMode(Automatic), and the hand-off of the local state, the
\* calls of replayPendingStates are setFlushMode(Manual), reSubmitFn for
\* the N ops in the order of their client sequence numbers,
\* setFlushMode(Automatic), and the setFlushMode(Automatic) that reverts the
\* flush mode.  There is no call of flush: onFlushModeUpdated has removed
\* the "flush" state.
C7_ClosedBatchReplayCalls ==
    pc = "replayedClosed" =>
        LET messages == Messages(stash.pendingStates)
        IN /\ failure = "none"
           /\ Len(messages) = clientSequenceNumber
           /\ \A i \in 1..Len(messages) :
                  messages[i].clientSequenceNumber = i
           /\ calls =
                  <<Call("setFlushMode", PendingFlushMode(Manual))>>
                  \o [i \in 1..Len(messages) |->
                         Call("reSubmitFn", messages[i])]
                  \o <<Call("setFlushMode", PendingFlushMode(Automatic)),
                       Call("setFlushMode", PendingFlushMode(Automatic))>>

\* a closed batch of three ops was replayed
C7_Witness ==
    /\ pc = "replayedClosed"
    /\ clientSequenceNumber = 3
    /\ Len(calls) = 6

\* C7, as the spec has it: the calls of replayPendingStates are
\* setFlushMode(Manual), reSubmitFn for the N ops in the order of their
\* client sequence numbers, flush() and setFlushMode(Automatic), whether
\* the call that reverts the flush mode is counted or not.
C7_ClosedBatchReplayCallsWithFlush ==
    pc = "replayedClosed" =>
        LET messages == Messages(stash.pendingStates)
            replayed ==
                <<Call("setFlushMode", PendingFlushMode(Manual))>>
                \o [i \in 1..Len(messages) |->
                       Call("reSubmitFn", messages[i])]
                \o <<Call("flush", PendingFlush),
                     Call("setFlushMode", PendingFlushMode(Automatic))>>
        IN \/ calls = replayed
           \/ calls = replayed
                  \o <<Call("setFlushMode", PendingFlushMode(Automatic))>>

\* C8: the local state taken after setFlushMode(Manual) and k >= 1 submits,
\* before setFlushMode(Automatic), is replayed by the container loaded with
\* it as one batch: after replayPendingStates, pendingStates is the
\* "flushMode" state of Manual, the k messages with the message type,
\* content, local op metadata and op metadata of the k ops, in order and
\* numbered 1..k by the new connection, and the "flushMode" state of
\* Automatic, and nothing else.
C8_OpenBatchReplaysAsOneBatch ==
    pc = "replayedOpen" =>
        LET messages == Messages(stash.pendingStates)
        IN /\ failure = "none"
           /\ Len(messages) >= 1
           /\ stash.pendingStates =
                  <<PendingFlushMode(Manual)>> \o messages
           /\ pendingStates =
                  <<PendingFlushMode(Manual)>>
                  \o [i \in 1..Len(messages) |->
                         PendingMessage(messages[i].messageType, i,
                                        lastSequenceNumber,
                                        messages[i].content,
                                        messages[i].localOpMetadata,
                                        messages[i].opMetadata)]
                  \o <<PendingFlushMode(Automatic)>>
           /\ pendingMessagesCount = Len(messages)
           /\ flushMode = Automatic

\* an open batch of three ops was replayed
C8_Witness ==
    /\ pc = "replayedOpen"
    /\ pendingMessagesCount = 3
    /\ Len(pendingStates) = 5

\* C9: when the container loaded with a local state has processed, as
\* remote messages, the sequenced messages of the first priorSequenced
\* messages of that local state (sent by the container that stashed, in the
\* order of their client sequence numbers) and has submitted nothing of its
\* own, replayPendingStates calls reSubmitFn for the other messages of the
\* local state, in order, and for nothing else.
C9_AckedInitialNotResent ==
    [][(/\ stash.defined
        /\ clientId = NoClientId
        /\ clientId' # NoClientId
        /\ clientSequenceNumber = 0) =>
           LET initialMessages == Messages(stash.pendingStates)
               remaining == SubSeq(initialMessages, priorSequenced + 1,
                                   Len(initialMessages))
           IN /\ failure' = "none"
              /\ SelectSeq(calls', LAMBDA c : c.call = "reSubmitFn") =
                     [i \in 1..Len(remaining) |->
                         Call("reSubmitFn", remaining[i])]
              /\ clientSequenceNumber' = Len(remaining)]_vars

\* the first of two stashed ops was sequenced for the container that
\* stashed, and the replay resubmitted the second only
C9_Witness ==
    /\ stash.defined
    /\ clientId # NoClientId
    /\ failure = "none"
    /\ priorSequenced = 1
    /\ CountMessages(stash.pendingStates) = 2
    /\ clientSequenceNumber = 1
    /\ Len(SelectSeq(calls, LAMBDA c : c.call = "reSubmitFn")) = 1

\* C10: replayPendingStates in a connected runtime whose client id is the
\* one of the last replay fails the assert "replayPendingStates called
\* twice for same clientId!"; it calls neither rebaseOp nor reSubmitFn,
\* setFlushMode or flush, and leaves pendingStates, initialStates,
\* pendingMessagesCount and clientId as they were.
C10_SecondReplayRefused ==
    [][(/\ connected
        /\ clientId = runtimeClientId
        /\ DoConnect(runtimeClientId, MaxCsn)) =>
           /\ failure' = "replayPendingStates called twice for same clientId!"
           /\ calls' = <<>>
           /\ rebased' = rebased
           /\ closeErrors' = closeErrors
           /\ UNCHANGED <<pendingStates, initialStates, pendingMessagesCount,
                          clientId, clientSequenceNumber, flushMode>>]_vars

\* the second replay under one client id was refused with two ops pending
C10_Witness ==
    /\ failure = "replayPendingStates called twice for same clientId!"
    /\ pendingMessagesCount = 2
    /\ Len(pendingStates) >= 3
    /\ calls = <<>>

\* C11: a sequenced message that is no chunked op is processed as a
\* remote message while the first message of the initial states is the
\* leading one (its client sequence number is initialClientSeqNum); the
\* states before it are no messages and are moved to pendingStates.  When
\* the sequence number of the sequenced message is greater than the
\* reference sequence number of the leading message, the call throws
\* "loaded from snapshot too recent to rebase pending initial ops", calls
\* no rebaseOp and leaves the message at the head of the initial states;
\* when it is equal, rebaseOp is called with the content and local op
\* metadata of the message and the message is moved to pendingStates; when
\* it is smaller, the message stays in the initial states, nothing is
\* rebased and nothing is thrown.
C11_LeadingInitialMessage ==
    [][lastSequenceNumber' = lastSequenceNumber + 1 =>
       \A id \in {OtherClientId, initialClientId}, csn \in 1..MaxCsn :
         LET message == SequencedMessage("component", id,
                                         lastSequenceNumber + 1, csn, "absent")
             first == CHOOSE i \in 1..(Len(initialStates) + 1) :
                          /\ \A j \in 1..(i - 1) :
                                 initialStates[j].type # "message"
                          /\ i <= Len(initialStates)
                                 => initialStates[i].type = "message"
             before == SubSeq(initialStates, 1, first - 1)
             leading == initialStates[first]
         IN (/\ DoRemoteAck(message) \/ DoPriorAck(message)
             /\ first <= Len(initialStates)
             /\ leading.clientSequenceNumber = initialClientSeqNum) =>
                IF message.sequenceNumber > leading.referenceSequenceNumber
                THEN /\ failure' = TooRecent
                     /\ rebased' = rebased
                     /\ initialStates' =
                            SubSeq(initialStates, first, Len(initialStates))
                     /\ pendingStates' = pendingStates \o before
                ELSE IF message.sequenceNumber
                            = leading.referenceSequenceNumber
                THEN /\ failure' = "none"
                     /\ Len(rebased') > Len(rebased)
                     /\ rebased'[Len(rebased) + 1] =
                            [content |-> leading.content,
                             localOpMetadata |-> leading.localOpMetadata]
                     /\ Len(initialStates') < Len(initialStates) - Len(before)
                     /\ SubSeq(pendingStates', 1,
                               Len(pendingStates) + first) =
                            pendingStates \o before \o <<leading>>
                ELSE /\ failure' = "none"
                     /\ rebased' = rebased
                     /\ initialStates' =
                            SubSeq(initialStates, first, Len(initialStates))
                     /\ pendingStates' = pendingStates \o before]_vars

\* the first sequenced message a loaded container processed came after the
\* reference sequence number of the leading stashed op, behind a
\* "flushMode" state: the call threw and the op is still an initial state
C11_Witness ==
    /\ failure = TooRecent
    /\ rebased = <<>>
    /\ initialStates # <<>>
    /\ Head(initialStates).type = "message"
    /\ pendingStates # <<>>
    /\ Head(pendingStates).type = "flushMode"

\* C12: replayPendingStates, once past its asserts, ends without throwing
\* and dequeues the n states that are pending after the initial states
\* were moved to pendingStates, and no state that its own calls of
\* reSubmitFn, setFlushMode and flush have added: its calls to the runtime
\* are one per state of the queue as it was before the call, in order,
\* followed by the call that reverts the flush mode.
\* Violated: onFlushModeUpdated(Automatic), re-entered from setFlushMode,
\* removes a state of the n from the back of the queue, and the loop then
\* dequeues a state that reSubmitFn has added, or an empty queue.
C12_ReplayDequeuesPendingOnly ==
    [][clientId' # clientId =>
           LET entries == pendingStates \o initialStates
           IN /\ failure' = "none"
              /\ entries # <<>> =>
                     calls' =
                         [i \in 1..Len(entries) |->
                             Call(CASE entries[i].type = "message"
                                           -> "reSubmitFn"
                                    [] entries[i].type = "flushMode"
                                           -> "setFlushMode"
                                    [] entries[i].type = "flush" -> "flush",
                                  entries[i])]
                         \o <<Call("setFlushMode",
                                   PendingFlushMode(flushMode))>>]_vars

\* C13: getLocalState returns undefined exactly when pendingMessagesCount is
\* 0; otherwise it returns the client id of the session and the entries of
\* pendingStates in queue order, with no entry of initialStates.  It is a
\* read: it has no assignment, so the state it is applied to is unchanged.
C13_LocalStateIsPendingOnly ==
    LET localState == getLocalState(State)
    IN /\ localState.defined <=> pendingMessagesCount # 0
       /\ localState.defined =>
              /\ localState.clientId = clientId
              /\ localState.pendingStates = pendingStates
       /\ ~localState.defined => localState = NoInitialState

\* a rehydrated manager that holds unacked messages of its own next to the
\* initial states it has not promoted yet
C13_Witness ==
    /\ initialStates # <<>>
    /\ pendingMessagesCount > 0
    /\ pendingStates # <<>>
    /\ getLocalState(State).defined

\* C14: onFlushModeUpdated(Manual) followed at once by
\* onFlushModeUpdated(Automatic) leaves the manager as it was, whatever the
\* queue held before: nothing, or a message, a flush or a flush mode at its
\* back.
C14_ManualThenAutomaticCollapses ==
    onFlushModeUpdated(onFlushModeUpdated(State, Manual), Automatic) = State

\* the queue ends in a flush, the one entry onFlushModeUpdated(Automatic)
\* removes when it is at the back
C14_Witness ==
    /\ pendingStates # <<>>
    /\ peekBack(pendingStates).type = "flush"
    /\ onFlushModeUpdated(State, Manual).pendingStates # pendingStates
    /\ onFlushModeUpdated(State, Automatic).pendingStates # pendingStates

\* C15: the rule on the batch metadata when a batch is left.  An
\* acknowledgement that matches the message at the head (after the marker
\* that opens a batch, if one is there) and is followed in the queue by a
\* flush or by a flush mode Automatic closes the batch.  It is accepted
\* exactly when, being also the acknowledgement that opened the batch, it
\* carries no batch metadata, or, being another one, the opening one carried
\* batch = true and this one carries batch = false; otherwise it fails one
\* of the asserts of lines 376, 381 and 382.  An acknowledgement inside a
\* batch that is followed by a message is accepted with any metadata.
C15_BatchMetadataRule ==
    [][lastSequenceNumber' = lastSequenceNumber + 1 =>
       \A batch \in BatchMetadata :
         LET message == SequencedMessage("component", runtimeClientId,
                                         lastSequenceNumber + 1,
                                         lastSequenceNumber + 1, batch)
             marker == /\ pendingStates # <<>>
                       /\ \/ Head(pendingStates).type = "flush"
                          \/ /\ Head(pendingStates).type = "flushMode"
                             /\ Head(pendingStates).flushMode = Manual
             begins == ~isProcessingBatch /\ marker
             afterMarker == IF begins THEN Tail(pendingStates)
                            ELSE pendingStates
             inBatch == isProcessingBatch \/ begins
             beginMessage == IF begins THEN message
                             ELSE pendingBatchBeginMessage
             matches == /\ afterMarker # <<>>
                        /\ Head(afterMarker).type = "message"
                        /\ Head(afterMarker).clientSequenceNumber
                               = message.clientSequenceNumber
             rest == Tail(afterMarker)
             closes == /\ rest # <<>>
                       /\ \/ Head(rest).type = "flush"
                          \/ /\ Head(rest).type = "flushMode"
                             /\ Head(rest).flushMode = Automatic
             inside == rest # <<>> /\ Head(rest).type = "message"
             wellFormed == IF beginMessage = message
                           THEN message.batch = "absent"
                           ELSE /\ beginMessage.batch = "true"
                                /\ message.batch = "false"
         IN (DoLocalAck(message) /\ inBatch /\ matches) =>
               /\ closes /\ wellFormed =>
                      /\ failure' = "none"
                      /\ closeErrors' = <<>>
                      /\ ~isProcessingBatch'
                      /\ pendingBatchBeginMessage' = NoMessage
               /\ closes /\ ~wellFormed =>
                      failure' \in
                          {"Batch with single message should not have batch metadata",
                           "Did not receive batch begin metadata",
                           "Did not receive batch end metadata"}
               /\ inside =>
                      /\ failure' = "none"
                      /\ closeErrors' = <<>>
                      /\ isProcessingBatch'
                      /\ pendingBatchBeginMessage' = beginMessage]_vars

\* the third acknowledgement of a batch of three messages, opened by an
\* acknowledgement with batch = true, carried no batch = false
C15_Witness ==
    /\ failure = "Did not receive batch end metadata"
    /\ lastSequenceNumber = 3
    /\ isProcessingBatch
    /\ pendingBatchBeginMessage.sequenceNumber = 1
    /\ pendingBatchBeginMessage.batch = "true"

RECURSIVE HasUnknown(_)
HasUnknown(q) ==
    IF q = <<>> THEN FALSE
    ELSE Head(q).type \notin {"message", "flushMode", "flush"}
             \/ HasUnknown(Tail(q))

\* C17: a manager loaded with a local state that holds an entry of an
\* unknown type fails when it reaches that entry at the latest: once the
\* entry has left the initial states and the pending states, an Error was
\* thrown.  Violated: processRemoteMessage drops the entry with the other
\* entries that are no message and replayPendingStates skips it in the
\* default branch of its switch.
C17_UnknownEntryFails ==
    (/\ HasUnknown(stash.pendingStates)
     /\ ~HasUnknown(initialStates \o pendingStates)) => failure # "none"

\* the client sequence numbers of the messages of q, head to tail, are
\* strictly increasing
Increasing(q) ==
    LET messages == Messages(q)
    IN \A i, j \in 1..Len(messages) :
           i < j => messages[i].clientSequenceNumber
                        < messages[j].clientSequenceNumber

\* A loaded manager that has not replayed yet holds messages of two
\* sessions: processRemoteMessage has moved messages of the initial states
\* to pendingStates and ops were submitted since the load.
TwoSessions ==
    /\ stash.defined
    /\ clientId = NoClientId
    /\ clientSequenceNumber > 0
    /\ rebased # <<>>

\* C18, as the code has it: the client sequence numbers of the messages in
\* pendingStates, head to tail, are strictly increasing in every state but
\* those of a loaded manager that holds messages of two sessions: the
\* messages moved from the initial states keep the client sequence numbers
\* of the container that stashed them and are pushed behind the messages
\* submitted since the load.
C18_CsnsIncreaseWithinSession ==
    ~TwoSessions => Increasing(pendingStates)

\* a loaded manager with two messages moved from the initial states and no
\* op of its own
C18_Witness ==
    /\ stash.defined
    /\ clientId = NoClientId
    /\ clientSequenceNumber = 0
    /\ Len(Messages(pendingStates)) = 2
    /\ initialStates = <<>>

\* C18, as the spec has it: in every reachable state the client sequence
\* numbers of the messages in pendingStates, head to tail, are strictly
\* increasing, the states of a loaded manager that holds messages moved from
\* the initial states and messages submitted since the load included.
C18_CsnsIncrease ==
    Increasing(pendingStates)

C20_BatchStateSetTogether ==
    isProcessingBatch <=> pendingBatchBeginMessage # NoMessage

\* an assert on the batch metadata failed at the end of a batch: the batch
\* state is the one the batch begin set
C20_Witness ==
    /\ failure \in {"Batch with single message should not have batch metadata",
                     "Did not receive batch begin metadata",
                     "Did not receive batch end metadata"}
    /\ isProcessingBatch
    /\ pendingBatchBeginMessage # NoMessage

\* C21: the initial states of a manager only shrink, from the head.  A
\* sequenced message of another container moves a prefix of them to the
\* back of pendingStates, in their order, each entry leaving initialStates
\* as it is pushed, before it dequeues from the head of pendingStates; a
\* replay moves all of them; a submit, a flush-mode change and a flush leave
\* them alone.
C21_InitialConsumedFromHead ==
    [][stash' = stash =>
         \E k \in 0..Len(initialStates) :
            LET moved == SubSeq(initialStates, 1, k)
                promoted == pendingStates \o moved
            IN /\ initialStates' = SubSeq(initialStates, k + 1, Len(initialStates))
               /\ rebased' = rebased \o RebaseCalls(moved)
               /\ lastSequenceNumber' # lastSequenceNumber =>
                      \E d \in 0..Len(promoted) :
                          pendingStates' = SubSeq(promoted, d + 1, Len(promoted))
               /\ clientId' # clientId => k = Len(initialStates)
               /\ (/\ lastSequenceNumber' = lastSequenceNumber
                   /\ clientId' = clientId) => k = 0]_vars

\* a sequenced message moved the first of two initial messages to
\* pendingStates and left the second in initialStates
C21_Witness ==
    /\ stash.defined
    /\ Len(Messages(stash.pendingStates)) = 2
    /\ CountMessages(initialStates) = 1
    /\ CountMessages(pendingStates) = 1
    /\ clientId = NoClientId
    /\ clientSequenceNumber = 0
    /\ failure = "none"

\* C22: the calls of rebaseOp a loaded manager has made, over all the
\* sequenced messages it processed and its replay, are the messages of its
\* initial state that have left initialStates, in their order, once each:
\* no message is rebased twice and no other message is rebased.  A manager
\* without initial state never calls rebaseOp.
C22_RebasedOnceInOrder ==
    LET initial == RebaseCalls(stash.pendingStates)
        left == Len(initial) - CountMessages(initialStates)
    IN /\ ~stash.defined => rebased = <<>>
       /\ stash.defined => rebased = SubSeq(initial, 1, left)

\* two initial messages, sequenced messages were processed, the manager
\* replayed and has submitted since
C22_Witness ==
    /\ stash.defined
    /\ clientId # NoClientId
    /\ failure = "none"
    /\ Len(rebased) = 2
    /\ lastSequenceNumber > stashSequenceNumber
    /\ pendingMessagesCount > 0

\* the content and the local metadata of the messages the replay passed to
\* reSubmitFn, in the order of the calls
Resubmitted(issued) ==
    LET resubmits == SelectSeq(issued, LAMBDA c : c.call = "reSubmitFn")
    IN [i \in 1..Len(resubmits) |->
           [content |-> resubmits[i].content,
            localOpMetadata |-> resubmits[i].localOpMetadata]]

\* C23: the first replay of a loaded manager resubmits the messages of the
\* container that stashed before the messages submitted since the load.
\* Stated for the two cases in which the state tells the two kinds apart:
\* no initial state was moved yet (pendingStates holds new messages only)
\* or all were moved (the order of pendingStates is the one of the claim).
\* Violated: the replay pushes the initial states behind the messages
\* submitted since the load and resubmits in that order.
C23_PriorSessionResubmittedFirst ==
    [][(/\ clientId' # clientId
        /\ stash.defined
        /\ clientId = NoClientId
        /\ failure' = "none"
        /\ rebased = <<>> \/ initialStates = <<>>) =>
           Resubmitted(calls') = RebaseCalls(initialStates \o pendingStates)]_vars

\* C24: processMessage on a message of type ChunkedOp, local or not, of
\* any client, changes no field of the manager, calls neither rebaseOp nor
\* closeFn, throws nothing and returns localAck = false and no metadata.
\* Stated of the call in every state, and of the steps that deliver a
\* chunked op: nothing changes but the sequence number the runtime has
\* seen, and the initial states stay where they are.
C24_ChunkedOpIgnored ==
    [][/\ \A id \in {OtherClientId, initialClientId, runtimeClientId},
             csn \in 1..MaxCsn, local \in BOOLEAN :
             LET message == SequencedMessage("chunkedOp", id,
                                             lastSequenceNumber + 1, csn,
                                             "absent")
             IN processMessage(State, message, local)
                    = [State EXCEPT !.result = Result(FALSE, Undefined)]
       /\ lastSequenceNumber' = lastSequenceNumber + 1 =>
             \A id \in {OtherClientId, initialClientId}, csn \in 1..MaxCsn :
                LET message == SequencedMessage("chunkedOp", id,
                                                lastSequenceNumber + 1, csn,
                                                "absent")
                IN (DoRemoteAck(message) \/ DoPriorAck(message)) =>
                      /\ UNCHANGED <<pendingStates, initialStates,
                                     pendingMessagesCount, isProcessingBatch,
                                     pendingBatchBeginMessage, rebased,
                                     closeErrors, failure, clientId>>
                      /\ result' = Result(FALSE, Undefined)]_vars

\* a loaded manager was delivered a chunked op and its initial states are
\* all there: a message of any other type would have moved them or thrown
C24_Witness ==
    /\ stash.defined
    /\ lastSequenceNumber > stashSequenceNumber
    /\ initialStates = stash.pendingStates
    /\ pendingStates = <<>>
    /\ rebased = <<>>
    /\ failure = "none"
    /\ result = Result(FALSE, Undefined)

\* C25: when replayPendingStates returns without throwing, the FlushMode
\* of the runtime is the one it had when the call began, whatever
\* pendingStates held, nothing included.
C25_ReplayKeepsFlushMode ==
    [][(clientId' # clientId /\ failure' = "none") =>
           flushMode' = flushMode]_vars

\* a replay in FlushMode.Manual that set the mode to Automatic on the way
\* and reverted it
C25_Witness ==
    /\ clientId # NoClientId
    /\ failure = "none"
    /\ flushMode = Manual
    /\ Len(calls) > 1
    /\ \E i \in 1..(Len(calls) - 1) :
           calls[i].call = "setFlushMode" /\ calls[i].flushMode = Automatic
    /\ calls[Len(calls)].call = "setFlushMode"
    /\ calls[Len(calls)].flushMode = Manual

\* C26: when the sequencer acknowledges, in order and with the batch
\* metadata of the framing, the ops the runtime has sent, no local ack is
\* rejected: no assert fails and closeFn is not called.  Violated: once the
\* messages before a flush are acknowledged the "flush" state is the head of
\* pendingStates; the switch to FlushMode.Automatic removes it as a
\* trailing flush and pushes the flush mode, which the next ack finds at
\* the head and rejects.
C26_InOrderAcksAccepted ==
    failure = "none" /\ closeErrors = <<>>

\* C27: when processRemoteMessage takes a sequenced message of the
\* container that stashed for the ack of an initial op (localAck = true),
\* the message it dequeues is the stashed one with the client sequence
\* number of the ack: the localOpMetadata it returns is the one of that
\* message.  Violated: the loop of lines 267-274 dequeues the first message
\* of pendingStates, which is an op submitted since the load when one was
\* submitted before the initial states were moved.
C27_ClaimedAckDequeuesInitial ==
    [][lastSequenceNumber' = lastSequenceNumber + 1 =>
       \A csn \in 1..MaxCsn :
          LET message == SequencedMessage("component", initialClientId,
                                          lastSequenceNumber + 1, csn,
                                          "absent")
              stashed == Messages(stash.pendingStates)
          IN (DoPriorAck(message) /\ result'.localAck) =>
                \E i \in 1..Len(stashed) :
                    /\ stashed[i].clientSequenceNumber = csn
                    /\ result'.localOpMetadata = stashed[i].localOpMetadata]_vars

\* C28: whenever an open manager holds an unacknowledged message, in
\* pendingStates or in initialStates, getLocalState returns a state, and
\* every such message is among its entries.  Violated: getLocalState goes
\* by pendingMessagesCount, which counts the ops submitted to this manager
\* only, and returns pendingStates only: a loaded manager that has not
\* replayed returns undefined, or a state without its initial states.
C28_LocalStateHoldsEveryMessage ==
    LET held == Messages(pendingStates \o initialStates)
        localState == getLocalState(State)
    IN (Open /\ held # <<>>) =>
           /\ localState.defined
           /\ \A i \in 1..Len(held) :
                  \E j \in 1..Len(localState.pendingStates) :
                      localState.pendingStates[j] = held[i]

\* the types of the states of q and the contents of its messages
Framing(q) ==
    [i \in 1..Len(q) |-> [type |-> q[i].type, content |-> q[i].content]]

\* C29: a replay that returns without throwing leaves in pendingStates the
\* sequence of state types and message contents it found there.  Violated:
\* a "flushMode" state whose mode the runtime is already in is replayed by
\* a setFlushMode call that changes nothing, so onFlushModeUpdated is not
\* called and the state is not pushed again: the marker that opens a batch
\* is lost when the batch is still open at the replay.
C29_ReplayKeepsFraming ==
    [][(clientId' # clientId /\ failure' = "none") =>
           Framing(pendingStates') = Framing(pendingStates \o initialStates)]_vars

\* C30: after a replay that returns without throwing initialStates is
\* empty and pendingMessagesCount is the number of messages in
\* pendingStates, whatever the count was before.  Violated: when the replay
\* of a flush mode removes a state that was still to be replayed, the loop
\* dequeues a message it has just resubmitted and resubmits it again, and
\* the count has one more than the queue.
C30_ReplayRecountsMessages ==
    [][(clientId' # clientId /\ clientId' # NoClientId /\ failure' = "none") =>
           /\ initialStates' = <<>>
           /\ pendingMessagesCount' = CountMessages(pendingStates')]_vars

\* C31: when a replay runs while a batch is being processed, the local
\* acks of the ops it resubmitted, in order and with the batch metadata the
\* runtime sent them with, are accepted: no assert fails and closeFn is not
\* called; and no batch is being processed once they are all acknowledged
\* and nothing is left on the wire or held.  Violated: the replay leaves
\* isProcessingBatch and pendingBatchBeginMessage as they were, and the ack
\* of a resubmitted op is checked as the end of the batch that the
\* acknowledged message of the previous connection began.
C31_MidBatchReplayAccepted ==
    [][(/\ pc.midBatch
        /\ pc'.acked = pc.acked + 1
        /\ pc'.acked <= pc.resubmitted) =>
           /\ failure' = "none"
           /\ closeErrors' = <<>>
           /\ (/\ pc'.acked = pc.resubmitted
               /\ pc'.wire = <<>>
               /\ pc'.held = 0) => ~isProcessingBatch']_vars

\* the length of the longest prefix of q whose states are no messages or
\* messages with a reference sequence number of at most sequenceNumber
Rebasable(q, sequenceNumber) ==
    CHOOSE k \in 0..Len(q) :
        /\ \A j \in 1..k :
               \/ q[j].type # "message"
               \/ q[j].referenceSequenceNumber <= sequenceNumber
        /\ k < Len(q) =>
               /\ q[k + 1].type = "message"
               /\ q[k + 1].referenceSequenceNumber > sequenceNumber

FirstMessage(q) ==
    IF \A i \in 1..Len(q) : q[i].type # "message" THEN 0
    ELSE CHOOSE i \in 1..Len(q) :
             /\ q[i].type = "message"
             /\ \A j \in 1..(i - 1) : q[j].type # "message"

\* C33: processRemoteMessage, once the initial states are moved (the queue
\* `promoted`).  For a sequenced message with the client id of the initial
\* state and a client sequence number of at least initialClientSeqNum, it
\* dequeues the states before the first message of the queue and that
\* message and returns localAck = true with the local op metadata of the
\* message; when the queue has no message it empties the queue and returns
\* localAck = false.  For any other sequenced message it dequeues nothing
\* and returns localAck = false.  Stated of the call in every state, and
\* of the steps that deliver such a message.
C33_ClaimDequeuesThroughFirstMessage ==
    [][/\ \A id \in {OtherClientId, initialClientId, runtimeClientId} \ {NoClientId},
             csn \in 0..MaxCsn :
             LET message == SequencedMessage("component", id,
                                             lastSequenceNumber + 1, csn,
                                             "absent")
                 drained == rebaseInitialStates(State, message)
                 promoted == drained.pendingStates
                 first == FirstMessage(promoted)
                 claims == /\ id = initialClientId
                           /\ csn >= initialClientSeqNum
             IN drained.failure = "none" =>
                   processRemoteMessage(State, message) =
                       IF ~claims
                       THEN [drained EXCEPT !.result = Result(FALSE, Undefined)]
                       ELSE IF first = 0
                       THEN [drained EXCEPT !.pendingStates = <<>>,
                                            !.result = Result(FALSE, Undefined)]
                       ELSE [drained EXCEPT
                                !.pendingStates = SubSeq(promoted, first + 1, Len(promoted)),
                                !.result = Result(TRUE, promoted[first].localOpMetadata)]
       /\ lastSequenceNumber' = lastSequenceNumber + 1 =>
             \A id \in {OtherClientId, initialClientId}, csn \in 1..MaxCsn :
                LET message == SequencedMessage("component", id,
                                                lastSequenceNumber + 1, csn,
                                                "absent")
                    promoted == pendingStates
                                    \o SubSeq(initialStates, 1, Len(initialStates) - Len(initialStates'))
                    first == FirstMessage(promoted)
                    claims == /\ id = initialClientId
                              /\ csn >= initialClientSeqNum
                IN (/\ DoRemoteAck(message) \/ DoPriorAck(message)
                    /\ failure' = "none") =>
                      IF ~claims
                      THEN /\ pendingStates' = promoted
                           /\ result' = Result(FALSE, Undefined)
                      ELSE IF first = 0
                      THEN /\ pendingStates' = <<>>
                           /\ result' = Result(FALSE, Undefined)
                      ELSE /\ pendingStates' = SubSeq(promoted, first + 1, Len(promoted))
                           /\ result' = Result(TRUE, promoted[first].localOpMetadata)]_vars

\* the sequenced message of the stashed op found a "flushMode" state before
\* the op: both were dequeued and the local op metadata of the op returned
C33_Witness ==
    /\ stash.defined
    /\ Len(stash.pendingStates) = 2
    /\ stash.pendingStates[1].type = "flushMode"
    /\ stash.pendingStates[2].type = "message"
    /\ failure = "none"
    /\ clientSequenceNumber = 0
    /\ initialStates = <<>>
    /\ pendingStates = <<>>
    /\ result = Result(TRUE, stash.pendingStates[2].localOpMetadata)

\* C34: maybeProcessBatchBegin, the first step of a local ack, on a queue
\* that is not empty.  When the head is a message nothing changes.  When
\* the head is a "flush" state or the "flushMode" state of FlushMode.Manual
\* and no batch is being processed, the head is removed, isProcessingBatch
\* becomes true and pendingBatchBeginMessage the sequenced message, and
\* nothing else changes: the message behind is not yet looked at.  When the
\* head is the "flushMode" state of FlushMode.Automatic, or one of the two
\* markers while a batch is being processed, an assert fails and the queue
\* and the batch state are as they were.
C34_BatchBegin ==
    \A csn \in 1..MaxCsn, batch \in BatchMetadata :
        LET message == SequencedMessage("component", runtimeClientId,
                                        lastSequenceNumber + 1, csn, batch)
            after == maybeProcessBatchBegin(State, message)
            head == Head(pendingStates)
            marker == head = PendingFlush \/ head = PendingFlushMode(Manual)
            noBatch == ~isProcessingBatch /\ pendingBatchBeginMessage = NoMessage
        IN pendingStates # <<>> =>
              IF head.type = "message"
              THEN after = State
              ELSE IF marker /\ noBatch
              THEN after = [State EXCEPT !.pendingStates = Tail(@),
                                         !.isProcessingBatch = TRUE,
                                         !.pendingBatchBeginMessage = message]
              ELSE head.type \in {"flush", "flushMode"} =>
                       /\ after.failure # "none"
                       /\ after = [State EXCEPT !.failure = after.failure]

\* a local ack found a "flushMode" state of FlushMode.Manual at the head
\* and began a batch with it; the message behind had another client
\* sequence number than the ack, so closeFn was called with the batch
\* begun, and the "flush" state now at the head meets a batch in progress
C34_Witness ==
    /\ Len(closeErrors) = 1
    /\ failure = "none"
    /\ isProcessingBatch
    /\ pendingBatchBeginMessage.sequenceNumber = lastSequenceNumber
    /\ pendingBatchBeginMessage.clientSequenceNumber
           = closeErrors[1].clientSequenceNumber
    /\ pendingStates # <<>>
    /\ Head(pendingStates) = PendingFlush

C36_FlushModeUpdated ==
    \A mode \in FlushModes, s \in {State, flush(State)} :
        LET q == s.pendingStates
            after == onFlushModeUpdated(s, mode)
            afterQueue ==
                IF mode = Automatic /\ q # <<>> /\ q[Len(q)] = PendingFlush
                THEN [q EXCEPT ![Len(q)] = PendingFlushMode(Automatic)]
                ELSE IF /\ mode = Automatic
                        /\ q # <<>>
                        /\ q[Len(q)] = PendingFlushMode(Manual)
                THEN SubSeq(q, 1, Len(q) - 1)
                ELSE Append(q, PendingFlushMode(mode))
        IN after = [s EXCEPT !.pendingStates = afterQueue]

\* a batch of one op was flushed by the switch to FlushMode.Automatic: the
\* "flush" state the flush pushed behind the op was replaced by the
\* "flushMode" state
C36_Witness ==
    /\ Open
    /\ flushMode = Automatic
    /\ pendingMessagesCount = 1
    /\ Len(pendingStates) = 3
    /\ pendingStates[1] = PendingFlushMode(Manual)
    /\ pendingStates[2].type = "message"
    /\ pendingStates[3] = PendingFlushMode(Automatic)
    /\ result = NoResult

\* C37: onFlush pushes a "flush" state exactly when the runtime is in
\* FlushMode.Manual and the state at the back of the queue is a message;
\* in every other case (FlushMode.Automatic, an empty queue, a "flush" or
\* "flushMode" state at the back) it changes nothing.  Consequently a
\* "flush" state of pendingStates is never directly behind a "flush" state
\* or a "flushMode" state.  Violated in its consequence: processRemoteMessage
\* pushes the initial states, which may begin with a "flush" state, behind
\* whatever the loaded container has queued since, a "flushMode" or a
\* "flush" state included.
C37_FlushOnlyBehindMessage ==
    /\ LET q == pendingStates
       IN onFlush(State) =
              IF flushMode = Manual /\ q # <<>> /\ q[Len(q)].type = "message"
              THEN [State EXCEPT !.pendingStates = Append(q, PendingFlush)]
              ELSE State
    /\ Open =>
           \A i \in 2..Len(pendingStates) :
               pendingStates[i] = PendingFlush =>
                   pendingStates[i - 1].type \notin {"flush", "flushMode"}

\* C38, as the code has it: when processRemoteMessage throws "loaded from
\* snapshot too recent to rebase pending initial ops", no rebaseOp call
\* was made during the call, the leading message and all behind it are in
\* initialStates as before, and the states that were before the leading
\* message, which are no messages, have been moved to the back of
\* pendingStates; nothing else has changed in the two queues.
C38_TooRecentMovesMarkersOnly ==
    [][(lastSequenceNumber' = lastSequenceNumber + 1 /\ failure' = TooRecent) =>
           LET first == FirstMessage(initialStates)
               before == SubSeq(initialStates, 1, first - 1)
           IN /\ first > 0
              /\ rebased' = rebased
              /\ initialStates' = SubSeq(initialStates, first, Len(initialStates))
              /\ pendingStates' = pendingStates \o before
              /\ pendingMessagesCount' = pendingMessagesCount]_vars

\* the local state began with a "flushMode" state: the call that threw
\* has moved it to pendingStates and left the message in initialStates
C38_Witness ==
    /\ failure = TooRecent
    /\ rebased = <<>>
    /\ pendingStates = <<PendingFlushMode(Manual)>>
    /\ Len(initialStates) = 1
    /\ stash.pendingStates = pendingStates \o initialStates

\* C38, as the spec has it: when processRemoteMessage throws that error,
\* initialStates and pendingStates are as they were before the call and no
\* rebaseOp call was made during it.
C38_TooRecentChangesNothing ==
    [][(lastSequenceNumber' = lastSequenceNumber + 1 /\ failure' = TooRecent) =>
           /\ rebased' = rebased
           /\ initialStates' = initialStates
           /\ pendingStates' = pendingStates]_vars

\* C39: in a manager constructed without initial state processRemoteMessage
\* does nothing: for a sequenced message of any client, with any client
\* sequence number, pendingStates, pendingMessagesCount, the batch state
\* and every other field stay as they are, rebaseOp is not called, nothing
\* is thrown and the value returned is localAck = false without metadata.
\* Stated of the call in every state, and of the steps that deliver a
\* message of another client.
C39_RemoteAckInert ==
    [][~stash.defined =>
          /\ \A id \in 1..OtherClientId, csn \in 0..MaxCsn :
                LET message == SequencedMessage("component", id,
                                                lastSequenceNumber + 1, csn,
                                                "absent")
                IN processRemoteMessage(State, message)
                       = [State EXCEPT !.result = Result(FALSE, Undefined)]
          /\ lastSequenceNumber' = lastSequenceNumber + 1 =>
                \A csn \in 1..MaxCsn :
                   LET message == SequencedMessage("component", OtherClientId,
                                                   lastSequenceNumber + 1, csn,
                                                   "absent")
                   IN DoRemoteAck(message) =>
                         /\ UNCHANGED <<pendingStates, initialStates,
                                        pendingMessagesCount, isProcessingBatch,
                                        pendingBatchBeginMessage, rebased,
                                        closeErrors, failure, clientId>>
                         /\ result' = Result(FALSE, Undefined)]_vars

\* a manager without initial state, inside a batch with an op pending, has
\* processed a message of another client
C39_Witness ==
    /\ ~stash.defined
    /\ Open
    /\ initialClientSeqNum = -1
    /\ isProcessingBatch
    /\ pendingMessagesCount > 0
    /\ lastSequenceNumber = 2
    /\ pendingBatchBeginMessage.sequenceNumber = 1
    /\ result = Result(FALSE, Undefined)
    /\ calls = <<>>

====
